---- MODULE Spec2Model ----
(***************************************************************************)
(* A model of the bitcask-go storage engine (package bitcask_go): the data *)
(* directory, the engine's in-memory state, the append path, the read      *)
(* path, the write batch and the replay that rebuilds the index at Open.   *)
(*                                                                         *)
(* A data file is the sequence of the records appended to it; byte offsets *)
(* are computed from the encoded sizes of the records, so that a position  *)
(* (fileId, offset, size) of the index is resolved the way                 *)
(* DataFile.ReadLogRecord resolves it: by the bytes found at that offset.  *)
(*                                                                         *)
(* The directory handed to Open is an input of the program.  The engine    *)
(* built from this source can only append to a directory that already      *)
(* holds a data file (setActiveFile dereferences the nil active file when  *)
(* there is none), so Init draws the directory from InitDirs: the empty    *)
(* directory and small well-formed directories.                            *)
(***************************************************************************)
EXTENDS Integers, Sequences, FiniteSets, TLC

\* ------------------------------------------------------------------ bounds
Keys == {"a", "b"}
Values == {"x", "y"}
\* The largest number of records (whole or torn) the data files may hold.
MaxRecords == 4
\* options.DataFileSize, the rotation threshold in bytes.
DataFileSize == 20

\* ------------------------------------------------------------- constants
nonTransactionSeqNo == 0
txnFinKey == "txn-fin"
LogRecordNormal == "Normal"
LogRecordDeleted == "Deleted"
LogRecordTxnFinished == "TxnFinished"
\* crc (4 bytes) + type (1 byte): the fixed part of a record header.
FixedHeaderSize == 5

\* ------------------------------------------------------------------ codec
\* Bytes binary.PutUvarint writes for n.
UvarintLen(n) == IF n < 128 THEN 1 ELSE IF n < 16384 THEN 2 ELSE 3

\* Bytes binary.PutVarint writes for n >= 0 (zig-zag: n is sent as 2n).
VarintLen(n) == UvarintLen(2 * n)

\* len(logRecordKeyWithSeq(key, seqNo)): the varint sequence number, then the key.
EncKeyLen(rec) == UvarintLen(rec.Seq) + Len(rec.Key)

\* The header EncodeLogRecord lays out: crc, type, varint keySize, varint valueSize.
HeaderSize(rec) == FixedHeaderSize + VarintLen(EncKeyLen(rec)) + VarintLen(Len(rec.Value))

\* The size EncodeLogRecord returns: header, key, value.
RecordSize(rec) == HeaderSize(rec) + EncKeyLen(rec) + Len(rec.Value)

\* A record as the log holds it.  Cut = 0: the whole record is on disk;
\* Cut = n > 0: a crash left only its first n bytes.
LogRecord(typ, seq, key, value) ==
    [Type |-> typ, Seq |-> seq, Key |-> key, Value |-> value, Cut |-> 0]

\* Bytes an entry of a file occupies on disk.
EntrySize(e) == IF e.Cut > 0 THEN e.Cut ELSE RecordSize(e)

\* ------------------------------------------------------------------ files
RECURSIVE StartOf(_, _)
\* The byte offset at which entry i of a file starts (i = Len + 1: the file size).
StartOf(file, i) == IF i <= 1 THEN 0 ELSE StartOf(file, i - 1) + EntrySize(file[i - 1])

\* IOManager.Size()
FileSize(file) == StartOf(file, Len(file) + 1)

ReadResult(st) == [st |-> st, rec |-> LogRecord(LogRecordNormal, 0, "", ""), size |-> 0]

\* DataFile.ReadLogRecord(offset), by the bytes at that offset:
\*   "ok"         a whole record starts there;
\*   "EOF"        the offset is the end of the file, or a torn tail whose header
\*                cannot be decoded or whose payload is short;
\*   "InvalidCRC" a torn tail of exactly crc + type: both sizes decode as 0 and
\*                the checksum of the type byte alone does not match;
\*   "Garbage"    the offset is inside a record, or at torn bytes that later
\*                appends follow: the bytes decode to io.EOF or ErrInvalidCRC
\*                depending on their values;
\*   "Panic"      the offset is beyond the file: make([]byte, fileSize-offset)
\*                with a negative length.
\* Keys and values of the model are shorter than 64 bytes, so both varints of
\* a header take one byte.
ReadLogRecord(file, offset) ==
    LET Entry(e, last) ==
            IF e.Cut = 0 THEN [st |-> "ok", rec |-> e, size |-> RecordSize(e)]
            ELSE IF ~last THEN ReadResult("Garbage")
            ELSE IF e.Cut = FixedHeaderSize THEN ReadResult("InvalidCRC")
            ELSE ReadResult("EOF")
        At(i) == Entry(file[i], i = Len(file))
        Among(hits) ==
            IF hits = {} THEN ReadResult("Garbage") ELSE At(CHOOSE j \in hits : TRUE)
        Within(fileSize) ==
            IF offset > fileSize THEN ReadResult("Panic")
            ELSE IF offset = fileSize THEN ReadResult("EOF")
            ELSE Among({i \in 1..Len(file) : StartOf(file, i) = offset})
    IN  Within(FileSize(file))

\* What a read of undecodable bytes can return.
GarbageOutcomes == {"EOF", "InvalidCRC"}

\* --------------------------------------------------------------- positions
LogRecordPos(fid, offset, size) == [Fid |-> fid, Offset |-> offset, Size |-> size]

\* --------------------------------------------------------------- the index
\* The index is a map from user keys to positions; a key without an entry is
\* outside its domain.
EmptyIndex == [k \in {} |-> LogRecordPos(0, 0, 0)]

IndexHas(index, key) == key \in DOMAIN index

\* Indexer.Put: insert or replace.
IndexPut(index, key, pos) ==
    [k \in DOMAIN index \cup {key} |-> IF k = key THEN pos ELSE index[k]]

\* Indexer.Delete: remove the entry.
IndexDelete(index, key) == [k \in DOMAIN index \ {key} |-> index[k]]

\* The replaced entry's size is not counted.
OldSizeForgotten(index, key) == 0

\* The size of the entry Put replaces or Delete removes (0: there was none).
OldSize(index, key) == IF IndexHas(index, key) THEN index[key].Size ELSE 0

\* ------------------------------------------------------------- the engine
\* db.activeFile == nil
NoFile == [FileId |-> -1, WriteOff |-> 0, Dirty |-> FALSE]

\* An open data file; Dirty: bytes were written to it since it was opened or
\* last synced.
DataFile(fid, off) == [FileId |-> fid, WriteOff |-> off, Dirty |-> FALSE]

\* DataFile.Sync on the active file.
SyncActive(d) == [d EXCEPT !.activeFile.Dirty = FALSE]

\* The fields of DB that Open initialises; mu is the state of db.mu between
\* calls ("locked": a call returned without releasing it).
NewDB ==
    [activeFile |-> NoFile, olderFiles |-> {}, index |-> EmptyIndex,
     seqNo |-> 0, reclaimSize |-> 0, isMerging |-> FALSE, mu |-> "unlocked"]

\* The directory's data files: a map from fileId to the file's entries.
EmptyDir == [f \in {} |-> <<>>]

WithFile(fs, fid) ==
    [f \in DOMAIN fs \cup {fid} |-> IF f \in DOMAIN fs THEN fs[f] ELSE <<>>]

RECURSIVE CountEntries(_, _)
CountEntries(fs, ids) ==
    IF ids = {} THEN 0
    ELSE LET f == CHOOSE x \in ids : TRUE
         IN  Len(fs[f]) + CountEntries(fs, ids \ {f})

\* Entries in all data files of a directory.
TotalEntries(fs) == CountEntries(fs, DOMAIN fs)

\* ------------------------------------------------------------ append path
\* What an operation of the engine hands back: the engine's fields and the
\* directory after it, the position it returns and its error ("ok": nil,
\* "panic": the goroutine panicked).
Outcome(d, fs, pos, err) == [db |-> d, files |-> fs, pos |-> pos, err |-> err]

NoPos == LogRecordPos(-1, -1, 0)

\* The id DB.setActiveFile opens; -1: it dereferences the nil active file.
\* initialField starts at 0 and is replaced only under `db.activeFile == nil`,
\* by db.activeFile.FileId + 1.
InitialField(activeFile) == IF activeFile = NoFile THEN -1 ELSE 0

\* DB.setActiveFile: open <initialField>.data (created when missing, opened for
\* append otherwise) as a DataFile with WriteOff 0 and make it the active file.
SetActiveFile(d, fs) ==
    LET OpenFile(fid) ==
            IF fid < 0 THEN Outcome(d, fs, NoPos, "panic")
            ELSE Outcome([d EXCEPT !.activeFile = DataFile(fid, 0)], WithFile(fs, fid),
                         NoPos, "ok")
    IN  OpenFile(InitialField(d.activeFile))

\* The offset DB.appendLogRecord puts in the position it returns: it reads
\* db.activeFile.WriteOff when it builds the position, after DataFile.Write
\* has advanced it.
ReturnedOffset(writeOffBefore, writeOffAfter) == writeOffAfter

\* DataFile.Write: append the bytes to the file, advance WriteOff by their number.
Write(d, fs, rec) ==
    LET fid == d.activeFile.FileId
    IN  Outcome([d EXCEPT !.activeFile.WriteOff = @ + RecordSize(rec),
                          !.activeFile.Dirty = TRUE],
                [fs EXCEPT ![fid] = Append(@, rec)], NoPos, "ok")

\* DB.appendLogRecord (the caller holds the lock, or not: see Commit): the
\* active file is opened when there is none, the active file is sealed and the
\* next one opened when the record does not fit, the record is written, and
\* the position is built from the active file's fields after the write.
AppendLogRecord(d, fs, rec) ==
    LET Finish(w, before) ==
            Outcome(w.db, w.files,
                    LogRecordPos(w.db.activeFile.FileId,
                                 ReturnedOffset(before, w.db.activeFile.WriteOff),
                                 RecordSize(rec)),
                    "ok")
        WriteTo(ready) ==
            IF ready.err # "ok" THEN ready
            ELSE Finish(Write(ready.db, ready.files, rec), ready.db.activeFile.WriteOff)
        Rotate(first) ==
            IF first.err # "ok" THEN first
            ELSE WriteTo(IF first.db.activeFile.WriteOff + RecordSize(rec) > DataFileSize
                         THEN SetActiveFile(
                                  [first.db EXCEPT
                                      !.olderFiles = @ \cup {first.db.activeFile.FileId}],
                                  first.files)
                         ELSE first)
    IN  Rotate(IF d.activeFile = NoFile THEN SetActiveFile(d, fs)
               ELSE Outcome(d, fs, NoPos, "ok"))

\* -------------------------------------------------------------- read path
GetResult(val, err) == [val |-> val, err |-> err]

\* DB.getValueByPosition.  The error "Garbage" stands for io.EOF or
\* ErrInvalidCRC, whichever the bytes at the offset decode to.
GetValueByPosition(d, fs, pos) ==
    LET Value(r) ==
            IF r.st = "Panic" THEN GetResult("", "panic")
            ELSE IF r.st # "ok" THEN GetResult("", r.st)
            ELSE IF r.rec.Type = LogRecordDeleted THEN GetResult("", "ErrKeyNotFound")
            ELSE GetResult(r.rec.Value, "ok")
    IN  IF d.activeFile = NoFile THEN GetResult("", "panic")
        ELSE IF d.activeFile.FileId # pos.Fid THEN GetResult("", "ErrDataFileNotFound")
        ELSE Value(ReadLogRecord(fs[pos.Fid], pos.Offset))

\* DB.Get
GetValue(d, fs, key) ==
    IF ~IndexHas(d.index, key) THEN GetResult("", "ErrKeyNotFound")
    ELSE GetValueByPosition(d, fs, d.index[key])

\* ---------------------------------------------------------------- replay
RECURSIVE SortedIds(_)
\* sort.Ints(fileIds)
SortedIds(ids) ==
    IF ids = {} THEN <<>>
    ELSE LET m == CHOOSE x \in ids : \A y \in ids : x <= y
         IN  <<m>> \o SortedIds(ids \ {m})

\* DB.loadDataFiles: the highest id becomes the active file, the others the
\* older files.
LoadDataFiles(d, fs) ==
    LET WithIds(ids) ==
            [d EXCEPT !.activeFile = DataFile(ids[Len(ids)], 0),
                      !.olderFiles = {ids[i] : i \in 1..(Len(ids) - 1)}]
    IN  IF DOMAIN fs = {} THEN d ELSE WithIds(SortedIds(DOMAIN fs))

\* The state loadIndexFromDataFiles carries through its loops: the index and
\* reclaimSize under construction, transactionRecords (sequence number -> the
\* records waiting for their commit marker), currentSeqNo, the offset reached
\* in the file being read, and the error that stops it.
ReplayState(index, reclaim) ==
    [index |-> index, reclaimSize |-> reclaim, txn |-> [q \in {} |-> <<>>],
     seqNo |-> nonTransactionSeqNo, offset |-> 0, err |-> "ok"]

\* The updateIndex closure of loadIndexFromDataFiles.
UpdateIndex(acc, key, typ, pos) ==
    IF typ = LogRecordDeleted
    THEN [acc EXCEPT !.index = IndexDelete(@, key),
                     !.reclaimSize = @ + pos.Size + OldSize(acc.index, key)]
    ELSE [acc EXCEPT !.index = IndexPut(@, key, pos),
                     !.reclaimSize = @ + OldSize(acc.index, key)]

\* The position under which replay indexes a record of a committed batch:
\* the TxnFinished branch passes logRecordPos, the position of the record
\* being read (the commit marker), not txnRecord.Pos.
TxnRecordPos(txnRecord, markerPos) == markerPos

RECURSIVE ApplyTransaction(_, _, _)
\* for _, txnRecord := range transactionRecords[seqNo] { updateIndex(...) }
ApplyTransaction(acc, recs, markerPos) ==
    IF recs = <<>> THEN acc
    ELSE ApplyTransaction(
             UpdateIndex(acc, recs[1].Key, recs[1].Type, TxnRecordPos(recs[1], markerPos)),
             Tail(recs), markerPos)

TxnRecords(acc, seq) == IF seq \in DOMAIN acc.txn THEN acc.txn[seq] ELSE <<>>

\* transactionRecords with `held` appended to the records of `seq`.
HoldRecord(txn, seq, held) ==
    [q \in DOMAIN txn \cup {seq} |->
        IF q # seq THEN txn[q]
        ELSE IF seq \in DOMAIN txn THEN Append(txn[seq], held)
        ELSE <<held>>]

\* One record of the replay loop: index it, or hold it until its marker; then
\* currentSeqNo follows the record's sequence number.
ReplayRecord(acc, rec, pos) ==
    LET Seen(done) == [done EXCEPT !.seqNo = IF rec.Seq > @ THEN rec.Seq ELSE @]
    IN  IF rec.Seq = nonTransactionSeqNo
        THEN Seen(UpdateIndex(acc, rec.Key, rec.Type, pos))
        ELSE IF rec.Type = LogRecordTxnFinished
        THEN Seen([ApplyTransaction(acc, TxnRecords(acc, rec.Seq), pos)
                   EXCEPT !.txn = [q \in DOMAIN acc.txn \ {rec.Seq} |-> acc.txn[q]]])
        ELSE Seen([acc EXCEPT !.txn =
                      HoldRecord(@, rec.Seq, [Key |-> rec.Key, Type |-> rec.Type, Pos |-> pos])])

RECURSIVE ReplayFile(_, _, _, _, _)
\* The inner loop of loadIndexFromDataFiles over one file, from `offset`;
\* g is what a read of undecodable bytes returns.
ReplayFile(acc, file, fid, offset, g) ==
    LET Step(r, st) ==
            IF st = "EOF" THEN [acc EXCEPT !.offset = offset]
            ELSE IF st # "ok" THEN [acc EXCEPT !.err = st]
            ELSE ReplayFile(ReplayRecord(acc, r.rec, LogRecordPos(fid, offset, r.size)),
                            file, fid, offset + r.size, g)
        Read(r) == Step(r, IF r.st = "Garbage" THEN g ELSE r.st)
    IN  Read(ReadLogRecord(file, offset))

RECURSIVE ReplayFiles(_, _, _, _, _, _, _)
\* The outer loop of loadIndexFromDataFiles over db.fileIds from index i on:
\* files below the merge boundary are skipped, the active file's WriteOff is
\* set to the offset reached when the last id is read.
ReplayFiles(acc, writeOff, fs, ids, i, boundary, g) ==
    LET After(a) ==
            IF a.err # "ok" THEN [acc |-> a, writeOff |-> writeOff]
            ELSE ReplayFiles(a, IF i = Len(ids) THEN a.offset ELSE writeOff,
                             fs, ids, i + 1, boundary, g)
    IN  IF i > Len(ids) THEN [acc |-> acc, writeOff |-> writeOff]
        ELSE IF ids[i] < boundary THEN ReplayFiles(acc, writeOff, fs, ids, i + 1, boundary, g)
        ELSE After(ReplayFile(acc, fs[ids[i]], ids[i], 0, g))

\* DB.loadIndexFromDataFiles.  boundary: the merge-finished marker's fileId
\* when hasMerge, else 0.
LoadIndexFromDataFiles(d, fs, boundary, g) ==
    LET Loaded(r) ==
            IF r.acc.err # "ok" THEN Outcome(d, fs, NoPos, r.acc.err)
            ELSE Outcome([d EXCEPT !.index = r.acc.index,
                                   !.reclaimSize = r.acc.reclaimSize,
                                   !.seqNo = r.acc.seqNo,
                                   !.activeFile.WriteOff = r.writeOff],
                         fs, NoPos, "ok")
    IN  IF DOMAIN fs = {} THEN Outcome(d, fs, NoPos, "ok")
        ELSE Loaded(ReplayFiles(ReplayState(d.index, d.reclaimSize), 0, fs,
                                SortedIds(DOMAIN fs), 1, boundary, g))

\* ------------------------------------------------------------ write batch
\* options.MaxBatchNum of the batch.
MaxBatchNum == 2

\* The largest number of times the process is killed in one behaviour.
MaxCrashes == 1

\* The largest number of records the data files hold when the process is killed.
MaxCrashRecords == 3

RECURSIVE Orders(_)
\* The orders in which `range wb.pendingWrites` may visit the staged keys.
Orders(keys) ==
    IF keys = {} THEN {<<>>}
    ELSE UNION {{<<k>> \o o : o \in Orders(keys \ {k})} : k \in keys}

\* The record Commit appends for the staged record of `key`.
BatchRecord(staged, key, seq) ==
    LogRecord(staged[key].Type, seq, key, staged[key].Value)

\* The records one Commit appends, in order: the staged records under the
\* batch's sequence number, then the commit marker.
CommitRecords(staged, order, seq) ==
    [i \in 1..(Len(order) + 1) |->
        IF i <= Len(order) THEN BatchRecord(staged, order[i], seq)
        ELSE LogRecord(LogRecordTxnFinished, seq, txnFinKey, "")]

\* What one successful appendLogRecord did: the position it returned, the
\* file it wrote, WriteOff before the write, the byte offset at which the
\* record's first byte landed (the file is opened O_APPEND: its end), and the
\* record.
Appended(a, rec) ==
    [pos |-> a.pos,
     fid |-> a.db.activeFile.FileId,
     before |-> a.db.activeFile.WriteOff - RecordSize(rec),
     start |-> FileSize(a.files[a.db.activeFile.FileId]) - RecordSize(rec),
     rec |-> rec]

RECURSIVE AppendAll(_, _, _, _)
\* Successive appendLogRecord calls for recs; log collects what each did.
\* The first failure ends it.
AppendAll(d, fs, recs, log) ==
    LET Then(a) ==
            IF a.err # "ok"
            THEN [db |-> a.db, files |-> a.files, log |-> log, err |-> a.err]
            ELSE AppendAll(a.db, a.files, Tail(recs), Append(log, Appended(a, recs[1])))
    IN  IF recs = <<>> THEN [db |-> d, files |-> fs, log |-> log, err |-> "ok"]
        ELSE Then(AppendLogRecord(d, fs, recs[1]))

RECURSIVE ApplyBatch(_, _, _, _, _)
\* The index loop that ends Commit: Put for a Normal record, Delete for a
\* Deleted one, and the replaced entry's size added to reclaimSize.
ApplyBatch(d, staged, order, log, i) ==
    IF i > Len(order) THEN d
    ELSE ApplyBatch(IF staged[order[i]].Type = LogRecordNormal
                    THEN [d EXCEPT !.index = IndexPut(@, order[i], log[i].pos),
                                   !.reclaimSize = @ + OldSize(d.index, order[i])]
                    ELSE [d EXCEPT !.index = IndexDelete(@, order[i]),
                                   !.reclaimSize = @ + OldSize(d.index, order[i])],
                    staged, order, log, i + 1)

\* ------------------------------------------------------------------ merge
\* options.DataFileMergeRatio (0 or 1): the share of reclaimable bytes below
\* which Merge refuses to run.
DataFileMergeRatio == 0

\* The merge directory (<dir>-merge): whether it exists, the data files of the
\* merge engine, the records of its hint file, and the boundary written in its
\* merge-finished marker (-1: no marker).  hintGone: the hint file is not in
\* it, an interrupted recovery has moved it away.
MergeDir(exists, mfiles, hint, fin) ==
    [exists |-> exists, files |-> mfiles, hint |-> hint, fin |-> fin, hintGone |-> FALSE]

NoMergeDir == MergeDir(FALSE, EmptyDir, <<>>, -1)

\* The hint file and the merge-finished marker of the primary directory.
NoAux == [hint |-> <<>>, fin |-> -1]

RECURSIVE SumSizes(_, _)
SumSizes(fs, ids) ==
    IF ids = {} THEN 0
    ELSE LET f == CHOOSE x \in ids : TRUE
         IN  FileSize(fs[f]) + SumSizes(fs, ids \ {f})

\* utils.DirSize of the primary directory, over its data files.
DirSize(fs) == SumSizes(fs, DOMAIN fs)

\* loadMergeFiles with the deferred os.RemoveAll(mergePath) left out.
LoadMergeFilesKeepsDir(fs, aux, md) ==
    IF md.exists /\ md.fin >= 0
    THEN [files |-> [f \in {x \in DOMAIN fs : x >= md.fin} \cup DOMAIN md.files |->
                        IF f \in DOMAIN md.files THEN md.files[f] ELSE fs[f]],
          aux |-> [hint |-> IF md.hintGone THEN aux.hint ELSE md.hint, fin |-> md.fin],
          mergeDir |-> md]
    ELSE [files |-> fs, aux |-> aux, mergeDir |-> md]

\* loadMergeFiles with the loop that deletes the old data files left out.
LoadMergeFilesKeepsOld(fs, aux, md) ==
    IF ~md.exists THEN [files |-> fs, aux |-> aux, mergeDir |-> md]
    ELSE IF md.fin < 0 THEN [files |-> fs, aux |-> aux, mergeDir |-> NoMergeDir]
    ELSE [files |-> [f \in DOMAIN fs \cup DOMAIN md.files |->
                        IF f \in DOMAIN md.files THEN md.files[f] ELSE fs[f]],
          aux |-> [hint |-> IF md.hintGone THEN aux.hint ELSE md.hint, fin |-> md.fin],
          mergeDir |-> NoMergeDir]

\* DB.loadMergeFiles: no merge directory: nothing; no marker in it: the
\* directory is removed; else the primary's data files below the boundary are
\* deleted, the merge directory's files are renamed into the primary directory
\* and the merge directory is removed.
LoadMergeFiles(fs, aux, md) ==
    IF ~md.exists THEN [files |-> fs, aux |-> aux, mergeDir |-> md]
    ELSE IF md.fin < 0 THEN [files |-> fs, aux |-> aux, mergeDir |-> NoMergeDir]
    ELSE [files |-> [f \in {x \in DOMAIN fs : x >= md.fin} \cup DOMAIN md.files |->
                        IF f \in DOMAIN md.files THEN md.files[f] ELSE fs[f]],
          aux |-> [hint |-> IF md.hintGone THEN aux.hint ELSE md.hint, fin |-> md.fin],
          mergeDir |-> NoMergeDir]

\* The number of steps of one loadMergeFiles at which the process may be killed.
MaxRecoverySteps == 5

\* loadMergeFiles of a merge directory with marker, killed after j of its
\* steps: first the os.Remove of the primary's data files below the boundary,
\* by ascending id, then the os.Rename of the merge directory's entries in the
\* order of os.ReadDir, which is by name: the data files, hint-index,
\* merge-finished.  The deferred os.RemoveAll does not run.
LoadMergeFilesKilled(fs, aux, md, j) ==
    LET dels == SortedIds({f \in DOMAIN fs : f < md.fin})
        moves == SortedIds(DOMAIN md.files)
        nd == IF j < Len(dels) THEN j ELSE Len(dels)
        nm == IF j - nd < Len(moves) THEN j - nd ELSE Len(moves)
        deleted == {dels[i] : i \in 1..nd}
        moved == {moves[i] : i \in 1..nm}
        hintMoved == ~md.hintGone /\ j - nd > Len(moves)
        finMoved == j - nd > Len(moves) + (IF md.hintGone THEN 0 ELSE 1)
    IN  [files |-> [f \in (DOMAIN fs \ deleted) \cup moved |->
                       IF f \in moved THEN md.files[f] ELSE fs[f]],
         aux |-> [hint |-> IF hintMoved THEN md.hint ELSE aux.hint,
                  fin |-> IF finMoved THEN md.fin ELSE aux.fin],
         mergeDir |-> [md EXCEPT !.files = [f \in DOMAIN md.files \ moved |-> md.files[f]],
                                 !.hint = IF hintMoved THEN <<>> ELSE @,
                                 !.hintGone = @ \/ hintMoved,
                                 !.fin = IF finMoved THEN -1 ELSE @]]

\* The steps loadMergeFiles takes on these directories.
RecoverySteps(fs, md) ==
    Cardinality({f \in DOMAIN fs : f < md.fin}) + Cardinality(DOMAIN md.files)
        + (IF md.hintGone THEN 1 ELSE 2)

\* The record DataFile.WriteHintRecord appends: the user key and a position.
HintRecord(key, pos) == [Key |-> key, Pos |-> pos]

RECURSIVE LoadIndexFromHintFile(_, _)
\* DB.loadIndexFromHintFile: index.Put for every record of the hint file.
LoadIndexFromHintFile(index, hint) ==
    IF hint = <<>> THEN index
    ELSE LoadIndexFromHintFile(IndexPut(index, hint[1].Key, hint[1].Pos), Tail(hint))

\* loadIndexFromDataFiles' boundary: it stats getMergePath(), the merge
\* directory, and reads the primary's marker only when that directory exists.
NonMergeFileId(md, aux) == IF md.exists /\ aux.fin >= 0 THEN aux.fin ELSE 0

\* What the scan of Merge has built: the merge engine, its data files, the
\* hint records, and the error that stopped it.
MergeState(mdb, mfiles, hint) == [db |-> mdb, files |-> mfiles, hint |-> hint, err |-> "ok"]

RECURSIVE MergeFile(_, _, _, _, _, _)
\* The inner loop of Merge over one file, from `offset`: a record is rewritten
\* when the primary index names this file and this offset for its key; the
\* hint record takes logRecordPos, the primary's index entry.
MergeFile(acc, index, file, fid, offset, g) ==
    LET Rewritten(a, key, size) ==
            IF a.err # "ok" THEN [acc EXCEPT !.err = a.err]
            ELSE MergeFile([acc EXCEPT !.db = a.db, !.files = a.files,
                                       !.hint = Append(@, HintRecord(key, index[key]))],
                           index, file, fid, offset + size, g)
        Step(r, st) ==
            IF st = "EOF" THEN acc
            ELSE IF st # "ok" THEN [acc EXCEPT !.err = st]
            ELSE IF /\ IndexHas(index, r.rec.Key)
                    /\ index[r.rec.Key].Fid = fid
                    /\ index[r.rec.Key].Offset = offset
            THEN Rewritten(AppendLogRecord(acc.db, acc.files,
                                           [r.rec EXCEPT !.Seq = nonTransactionSeqNo]),
                           r.rec.Key, r.size)
            ELSE MergeFile(acc, index, file, fid, offset + r.size, g)
        Read(r) == Step(r, IF r.st = "Garbage" THEN g ELSE r.st)
    IN  Read(ReadLogRecord(file, offset))

RECURSIVE MergeFiles(_, _, _, _, _, _)
\* The outer loop of Merge over mergeFiles, sorted by id.
MergeFiles(acc, index, fs, ids, i, g) ==
    IF i > Len(ids) \/ acc.err # "ok" THEN acc
    ELSE MergeFiles(MergeFile(acc, index, fs[ids[i]], ids[i], 0, g), index, fs, ids, i + 1, g)

\* The preparation of Merge: the active file joins the older files and
\* setActiveFile opens the next active file.
MergePrepare(d, fs) ==
    SetActiveFile([d EXCEPT !.olderFiles = @ \cup {d.activeFile.FileId}], fs)

\* The scan of Merge after its preparation p: a new engine opened on the empty
\* merge directory rewrites the live records of the older files.
MergeScan(p, g) ==
    MergeFiles(MergeState(NewDB, EmptyDir, <<>>), p.db.index, p.files,
               SortedIds(p.db.olderFiles), 1, g)

MergeOutcome(d, fs, md, err) == [db |-> d, files |-> fs, mergeDir |-> md, err |-> err]

\* DB.Merge, from its call to its return (or its panic).  enough: the disk has
\* room for the merged data (utils.AvailableDiskSize).
MergeRun(d, fs, md, enough, g) ==
    LET Scanned(p, scan) ==
            IF scan.err # "ok"
            THEN MergeOutcome(p.db, p.files, MergeDir(TRUE, scan.files, scan.hint, -1),
                              IF scan.err = "Panic" THEN "panic" ELSE scan.err)
            ELSE MergeOutcome(p.db, p.files,
                              MergeDir(TRUE, scan.files, scan.hint, p.db.activeFile.FileId),
                              "ok")
        Prepared(p) == Scanned(p, MergeScan(p, g))
    IN  IF d.activeFile = NoFile THEN MergeOutcome(d, fs, md, "ok")
        ELSE IF d.isMerging THEN MergeOutcome(d, fs, md, "ErrMergeIsProgress")
        ELSE IF d.reclaimSize < DataFileMergeRatio * DirSize(fs)
        THEN MergeOutcome(d, fs, md, "ErrMergeRatioUnreached")
        ELSE IF ~enough
        THEN MergeOutcome([d EXCEPT !.mu = "locked"], fs, md, "ErrNoEnoughSpaceForMerge")
        ELSE Prepared(MergePrepare(d, fs))

\* ------------------------------------------------------------ the iterator
\* Keys and prefixes the iterator is tried on.
IterKeys == {"a", "ab", "b"}
Prefixes == {"", "a", "ab"}
\* The largest number of records the data files may hold while an iterator is
\* tried.
MaxIterRecords == 3

\* []byte(key)
KeyBytes(key) ==
    CASE key = "a" -> <<97>>
      [] key = "ab" -> <<97, 98>>
      [] key = "b" -> <<98>>
      [] OTHER -> <<>>

RECURSIVE Compare(_, _)
\* bytes.Compare: -1, 0 or 1, lexicographically.
Compare(x, y) ==
    IF x = <<>> THEN (IF y = <<>> THEN 0 ELSE -1)
    ELSE IF y = <<>> THEN 1
    ELSE IF x[1] < y[1] THEN -1
    ELSE IF x[1] > y[1] THEN 1
    ELSE Compare(Tail(x), Tail(y))

\* Item.Less: the order of the B-tree.
Less(a, b) == Compare(KeyBytes(a), KeyBytes(b)) = -1

\* An entry of the B-tree.
Item(key, pos) == [key |-> key, pos |-> pos]

RECURSIVE Ascend(_)
\* tree.Ascend: the items from the least key up.
Ascend(index) ==
    IF DOMAIN index = {} THEN <<>>
    ELSE LET From(least) == <<Item(least, index[least])>> \o Ascend(IndexDelete(index, least))
         IN  From(CHOOSE k \in DOMAIN index : \A j \in DOMAIN index \ {k} : Less(k, j))

\* tree.Descend: the items from the greatest key down.
Descend(index) == [i \in 1..Len(Ascend(index)) |-> Ascend(index)[Len(Ascend(index)) + 1 - i]]

\* newBTreeIterator: the items are copied into the iterator's own array.
NewBTreeIterator(index, reverse) ==
    [currIndex |-> 0, reverse |-> reverse,
     values |-> IF reverse THEN Descend(index) ELSE Ascend(index)]

\* The iterator walks the tree itself, not its array.
IterValuesLive(it, index) == IF it.reverse THEN Descend(index) ELSE Ascend(index)

\* The items a btreeIterator walks: bti.values, filled when it was built.
IterValues(it, index) == it.values

\* skipToNext compares the prefix with the whole key.
HasPrefixWholeKey(prefix, key) == Compare(KeyBytes(prefix), KeyBytes(key)) = 0

\* skipToNext's test: prefixLen <= len(key) and prefix = key[:prefixLen].
HasPrefix(prefix, key) ==
    /\ Len(KeyBytes(prefix)) <= Len(KeyBytes(key))
    /\ Compare(KeyBytes(prefix), SubSeq(KeyBytes(key), 1, Len(KeyBytes(prefix)))) = 0

RECURSIVE SkipToNext(_, _, _)
\* Iterator.skipToNext from currIndex i: with a prefix, forward to the next
\* item whose key has it.
SkipToNext(values, i, prefix) ==
    IF Len(KeyBytes(prefix)) = 0 THEN i
    ELSE IF i < Len(values) /\ ~HasPrefix(prefix, values[i + 1].key)
    THEN SkipToNext(values, i + 1, prefix)
    ELSE i

\* No iterator.
NoIter ==
    [open |-> FALSE, values |-> <<>>, currIndex |-> 0, reverse |-> FALSE, prefix |-> "",
     rewound |-> FALSE, visited |-> <<>>, born |-> {}]

\* btreeIterator.Valid
Valid(values, i) == i < Len(values)

\* The iterator at currIndex i, and the key it is on added to those visited.
Moved(it, values, i) ==
    [it EXCEPT !.currIndex = i,
               !.rewound = TRUE,
               !.visited = IF Valid(values, i) THEN Append(@, values[i + 1].key) ELSE @]

RECURSIVE Search(_, _, _, _, _)
\* sort.Search(len(values), f) between lo and hi, f being Seek's test: the
\* item's key is <= key on a reverse iterator, >= key on a forward one.
Search(values, key, reverse, lo, hi) ==
    IF lo >= hi THEN lo
    ELSE LET h == (lo + hi) \div 2
             f == IF reverse
                  THEN Compare(KeyBytes(values[h + 1].key), KeyBytes(key)) <= 0
                  ELSE Compare(KeyBytes(values[h + 1].key), KeyBytes(key)) >= 0
         IN  IF ~f THEN Search(values, key, reverse, h + 1, hi)
             ELSE Search(values, key, reverse, lo, h)

\* Seek that tests for >= key whatever the direction.
BtreeSeekForward(values, key, reverse) == Search(values, key, FALSE, 0, Len(values))

\* btreeIterator.Seek: the currIndex it sets.
BtreeSeek(values, key, reverse) == Search(values, key, reverse, 0, Len(values))

\* ------------------------------------------------------------------ state
VARIABLES
    files,      \* the data files of the directory: fileId -> entries of <fileId>.data
    primary,    \* the directory's hint file and merge-finished marker
    mergeDir,   \* the merge directory next to it
    status,     \* "closed" | "open": whether an engine instance is open on it
    db,         \* the open engine's fields (NewDB when none is open)
    pending,    \* WriteBatch.pendingWrites: user key -> staged record
    thr,        \* the calls of concurrent threads: where each one is
    ret,        \* the last call: its name, its key, and what it returned
    lastOp,     \* per key, the last write the open engine returned success for
    appended,   \* what the appends of the last call did, in order
    history,    \* the appends before them: the last position, the highest file
    snap,       \* what was observed when the engine last stopped or merged
    lastBatch,  \* the batch of the last Commit, until the next call
    crashes,    \* how many times the process was killed
    fileLock,   \* who holds the directory's flock: "free" | "db" | "other"
    iter        \* the iterator the user holds, and the keys it has visited

vars == <<files, primary, mergeDir, status, db, pending, thr, ret, lastOp,
          appended, history, snap, lastBatch, crashes, fileLock, iter>>

\* Directories Open may be handed: empty; one empty data file; a sealed file
\* holding one record and an empty active file; an empty sealed file and an
\* active file holding one record.
InitDirs ==
    { EmptyDir,
      (0 :> <<>>),
      (0 :> <<LogRecord(LogRecordNormal, nonTransactionSeqNo, "a", "x")>>) @@ (1 :> <<>>),
      (0 :> <<>>) @@ (1 :> <<LogRecord(LogRecordNormal, nonTransactionSeqNo, "a", "x")>>) }

Threads == {"t1", "t2"}

NoPending == [k \in {} |-> LogRecord(LogRecordNormal, 0, "", "")]

\* A thread that has not called yet.
Idle == [pc |-> "idle", key |-> "", val |-> "", seq |-> 0, pos |-> NoPos, err |-> "ok",
         ids |-> {}, more |-> <<>>]
NoThreads == [t \in Threads |-> Idle]

Ret(op, key, val, err) == [op |-> op, key |-> key, val |-> val, err |-> err]

NoOp == [op |-> "none", val |-> ""]
NoOps == [k \in Keys |-> NoOp]

\* What Get returns for every key in the state (d, fs).
GetAll(d, fs) == [k \in Keys |-> GetValue(d, fs, k)]

Snap(at, get, fs, dir) ==
    [at |-> at, get |-> get, files |-> fs, dir |-> dir, dirty |-> FALSE]
NoSnap == Snap("none", [k \in Keys |-> GetResult("", "none")], EmptyDir, FALSE)

NoHistory == [last |-> NoPos, top |-> -1]

Max(a, b) == IF a >= b THEN a ELSE b

RECURSIVE Absorb(_, _)
\* history after the appends of `log`.
Absorb(h, log) ==
    IF log = <<>> THEN h
    ELSE Absorb([last |-> log[1].pos, top |-> Max(h.top, log[1].fid)], Tail(log))

Init ==
    /\ files \in InitDirs
    /\ primary = NoAux
    /\ mergeDir = NoMergeDir
    /\ status = "closed"
    /\ db = NewDB
    /\ pending = NoPending
    /\ thr = NoThreads
    /\ ret = Ret("none", "", "", "ok")
    /\ lastOp = NoOps
    /\ appended = <<>>
    /\ history = NoHistory
    /\ snap = NoSnap
    /\ lastBatch = NoPending
    /\ crashes = 0
    /\ fileLock = "free"
    /\ iter = NoIter

\* The appends of a call that succeeded.
Appends(log) ==
    /\ appended' = log
    /\ history' = Absorb(history, appended)

\* The engine stops: its handle and its batch are gone.
Stops ==
    /\ status' = "closed"
    /\ db' = NewDB
    /\ pending' = NoPending
    /\ lastOp' = NoOps
    /\ appended' = <<>>
    /\ history' = NoHistory

\* The process dies in call `op`: a panic that nothing recovers.  The
\* directories keep what was written.
Dies(op, key, fs, md) ==
    /\ Stops
    /\ files' = fs
    /\ mergeDir' = md
    /\ ret' = Ret(op, key, "", "panic")
    /\ snap' = NoSnap
    /\ lastBatch' = NoPending
    /\ fileLock' = "free"
    /\ UNCHANGED <<iter, primary, thr, crashes>>

\* flock.TryLock: the lock is taken when nobody holds it.
TryLock(lock) == lock = "free"

\* Close's deferred fileLock.Unlock is skipped by the early return of an
\* engine that has no active file.
CloseUnlocksWhenWritten(activeFile) == activeFile # NoFile

\* DB.Close releases the directory lock: the Unlock is deferred before the
\* first return.
CloseUnlocks(activeFile) == TRUE

\* Open(options): TryLock on the directory's lock file, then loadMergeFiles,
\* loadDataFiles, loadIndexFromHintFile and loadIndexFromDataFiles.  An error
\* of the loading returns without Unlock.
Open(g) ==
    /\ status = "closed"
    /\ IF ~TryLock(fileLock)
       THEN /\ ret' = Ret("Open", "", "", "ErrDatabaseIsUsing")
            /\ snap' = Snap("Refused", snap.get, EmptyDir, FALSE)
            /\ UNCHANGED <<iter, fileLock, files, primary, mergeDir, status, db>>
       ELSE /\ fileLock' = "db"
            /\ snap' = snap
            /\ LET Indexed(r) ==
                       /\ status' = IF r.err = "ok" THEN "open" ELSE "closed"
                       /\ db' = IF r.err = "ok" THEN r.db ELSE NewDB
                       /\ ret' = Ret("Open", "", "", r.err)
                   Merged(m) ==
                       /\ files' = m.files
                       /\ primary' = m.aux
                       /\ mergeDir' = m.mergeDir
                       /\ Indexed(LoadIndexFromDataFiles(
                                      [LoadDataFiles(NewDB, m.files) EXCEPT
                                          !.index = LoadIndexFromHintFile(@, m.aux.hint)],
                                      m.files, NonMergeFileId(m.mergeDir, m.aux), g))
               IN  Merged(LoadMergeFiles(files, primary, mergeDir))
    /\ lastOp' = NoOps
    /\ appended' = <<>>
    /\ history' = NoHistory
    /\ UNCHANGED <<iter, pending, thr, lastBatch, crashes>>

\* The process is killed in Open's loadMergeFiles after j steps of the
\* recovery of a merge directory that holds the marker.
OpenKilled(j) ==
    /\ status = "closed"
    /\ TryLock(fileLock)
    /\ mergeDir.exists /\ mergeDir.fin >= 0
    /\ crashes < MaxCrashes
    /\ crashes' = crashes + 1
    /\ j <= RecoverySteps(files, mergeDir)
    /\ LET Killed(m) ==
               /\ files' = m.files
               /\ primary' = m.aux
               /\ mergeDir' = m.mergeDir
       IN  Killed(LoadMergeFilesKilled(files, primary, mergeDir, j))
    /\ Stops
    /\ ret' = Ret("OpenKilled", "", "", "killed")
    /\ snap' = Snap("Recovery", GetAll(db, files),
                    LoadMergeFiles(files, primary, mergeDir).files, TRUE)
    /\ lastBatch' = NoPending
    /\ UNCHANGED <<iter, fileLock, thr>>

\* The process whose Open failed after it took the lock ends: the lock Open
\* did not release is free again.
Exit ==
    /\ status = "closed"
    /\ fileLock = "db"
    /\ fileLock' = "free"
    /\ ret' = Ret("Exit", "", "", "ok")
    /\ UNCHANGED <<iter, files, primary, mergeDir, status, db, pending, thr, lastOp,
                   appended, history, snap, lastBatch, crashes>>

\* Another process opens an engine on the directory and writes nothing.
OtherOpen ==
    /\ TryLock(fileLock)
    /\ fileLock' = "other"
    /\ ret' = Ret("OtherOpen", "", "", "ok")
    /\ UNCHANGED <<iter, files, primary, mergeDir, status, db, pending, thr, lastOp,
                   appended, history, snap, lastBatch, crashes>>

\* The other process closes its engine.
OtherClose ==
    /\ fileLock = "other"
    /\ fileLock' = IF CloseUnlocks(NoFile) THEN "free" ELSE fileLock
    /\ ret' = Ret("OtherClose", "", "", "ok")
    /\ UNCHANGED <<iter, files, primary, mergeDir, status, db, pending, thr, lastOp,
                   appended, history, snap, lastBatch, crashes>>

\* What DB.Close leaves of the active file's unsynced bytes: it calls
\* activeFile.Close() and never activeFile.Sync(), so they stay unsynced.
ClosedDirty(activeFile) == activeFile.Dirty

\* DB.Close: the index is closed, the sequence-number file written and synced,
\* the active file and the older files are closed, the directory lock is
\* released; nothing is written to the data files.
Close ==
    /\ status = "open"
    /\ db.activeFile = NoFile \/ db.mu = "unlocked"
    /\ Stops
    /\ ret' = Ret("Close", "", "", "ok")
    /\ snap' = [IF snap.at = "Merge" THEN [snap EXCEPT !.at = "MergeClose"]
                ELSE Snap("Close", GetAll(db, files), EmptyDir, FALSE)
                EXCEPT !.dirty = ClosedDirty(db.activeFile)]
    /\ fileLock' = IF CloseUnlocks(db.activeFile) THEN "free" ELSE fileLock
    /\ UNCHANGED <<iter, files, primary, mergeDir, thr, lastBatch, crashes>>

\* DB.Sync: the active file is synced under db.mu; nil without an active file.
Sync ==
    /\ status = "open"
    /\ db.activeFile = NoFile \/ db.mu = "unlocked"
    /\ db' = IF db.activeFile = NoFile THEN db ELSE SyncActive(db)
    /\ ret' = Ret("Sync", "", "", "ok")
    /\ Appends(<<>>)
    /\ snap' = NoSnap
    /\ lastBatch' = NoPending
    /\ UNCHANGED <<iter, fileLock, files, primary, mergeDir, status, pending, thr, lastOp,
                   crashes>>

\* The length test of a key is missing: no key is taken as empty.
KeyIsEmptyNever(key) == FALSE

\* len(key) == 0
KeyIsEmpty(key) == Len(key) = 0

\* A call returns ErrKeyIsEmpty.
Rejected(op, key) ==
    /\ ret' = Ret(op, key, "", "ErrKeyIsEmpty")
    /\ Appends(<<>>)
    /\ snap' = NoSnap
    /\ lastBatch' = NoPending
    /\ UNCHANGED <<iter, files, primary, mergeDir, status, db, pending, thr, lastOp, crashes,
                   fileLock>>

\* DB.Put(key, value)
Put(key, value) ==
    /\ status = "open"
    /\ IF KeyIsEmpty(key)
       THEN Rejected("Put", key)
       ELSE /\ db.mu = "unlocked"
            /\ TotalEntries(files) < MaxRecords
            /\ LET Written(a, rec) ==
                       IF a.err = "panic" THEN Dies("Put", key, files, mergeDir)
                       ELSE /\ files' = a.files
                            /\ db' = [a.db EXCEPT !.index = IndexPut(@, key, a.pos),
                                                  !.reclaimSize = @ + OldSize(a.db.index, key)]
                            /\ ret' = Ret("Put", key, value, "ok")
                            /\ lastOp' = [lastOp EXCEPT ![key] = [op |-> "Put", val |-> value]]
                            /\ Appends(<<Appended(a, rec)>>)
                            /\ snap' = NoSnap
                            /\ lastBatch' = NoPending
                            /\ UNCHANGED <<iter, fileLock, primary, mergeDir, status, pending, thr, crashes>>
                   Record(rec) == Written(AppendLogRecord(db, files, rec), rec)
               IN  Record(LogRecord(LogRecordNormal, nonTransactionSeqNo, key, value))

\* DB.Delete forgets to look the key up: every key is taken as present.
KeyAbsentNever(index, key) == FALSE

\* DB.Delete's lookup: index.Get(key) returned nil.
KeyAbsent(index, key) == ~IndexHas(index, key)

\* DB.Delete(key)
Delete(key) ==
    /\ status = "open"
    /\ IF KeyIsEmpty(key)
       THEN Rejected("Delete", key)
       ELSE /\ TotalEntries(files) < MaxRecords
            /\ IF KeyAbsent(db.index, key)
               THEN /\ ret' = Ret("Delete", key, "", "ok")
                    /\ lastOp' = [lastOp EXCEPT ![key] = [op |-> "Delete", val |-> ""]]
                    /\ Appends(<<>>)
                    /\ snap' = NoSnap
                    /\ lastBatch' = NoPending
                    /\ UNCHANGED <<iter, fileLock, files, primary, mergeDir, status, db, pending, thr, crashes>>
               ELSE /\ db.mu = "unlocked"
                    /\ LET Written(a, rec) ==
                               IF a.err = "panic" THEN Dies("Delete", key, files, mergeDir)
                               ELSE /\ files' = a.files
                                    /\ db' = [a.db EXCEPT
                                                 !.index = IndexDelete(@, key),
                                                 !.reclaimSize =
                                                     @ + a.pos.Size + OldSize(a.db.index, key)]
                                    /\ ret' = Ret("Delete", key, "", "ok")
                                    /\ lastOp' = [lastOp EXCEPT
                                                     ![key] = [op |-> "Delete", val |-> ""]]
                                    /\ Appends(<<Appended(a, rec)>>)
                                    /\ snap' = NoSnap
                                    /\ lastBatch' = NoPending
                                    /\ UNCHANGED <<iter, fileLock, primary, mergeDir, status, pending, thr, crashes>>
                           Record(rec) == Written(AppendLogRecord(db, files, rec), rec)
                       IN  Record(LogRecord(LogRecordDeleted, nonTransactionSeqNo, key, ""))

\* DB.Get(key); g is what a read of undecodable bytes returns.
Get(key, g) ==
    /\ status = "open"
    /\ db.mu = "unlocked"
    /\ IF KeyIsEmpty(key)
       THEN Rejected("Get", key)
       ELSE /\ LET Read(r) ==
                       IF r.err = "panic" THEN Dies("Get", key, files, mergeDir)
                       ELSE /\ ret' = Ret("Get", key, r.val, IF r.err = "Garbage" THEN g ELSE r.err)
                            /\ Appends(<<>>)
                            /\ snap' = NoSnap
                            /\ lastBatch' = NoPending
                            /\ UNCHANGED <<iter, fileLock, files, primary, mergeDir, status, db, pending, thr,
                                           lastOp, crashes>>
               IN  Read(GetValue(db, files, key))

\* WriteBatch.Put(key, value)
BatchPut(key, value) ==
    /\ status = "open"
    /\ IF KeyIsEmpty(key)
       THEN Rejected("BatchPut", key)
       ELSE /\ pending' = [k \in DOMAIN pending \cup {key} |->
                              IF k = key THEN LogRecord(LogRecordNormal, 0, key, value)
                              ELSE pending[k]]
            /\ ret' = Ret("BatchPut", key, value, "ok")
            /\ Appends(<<>>)
            /\ snap' = NoSnap
            /\ lastBatch' = NoPending
            /\ UNCHANGED <<iter, fileLock, files, primary, mergeDir, status, db, thr, lastOp, crashes>>

\* WriteBatch.Delete stages a tombstone whether the key is in the index or not.
StageTombstone(staged, index, key) ==
    [k \in DOMAIN staged \cup {key} |->
        IF k = key THEN LogRecord(LogRecordDeleted, 0, key, "") ELSE staged[k]]

\* pendingWrites after WriteBatch.Delete(key): a key that has no index entry
\* is removed from it, for any other key a tombstone replaces what was staged.
StageDelete(staged, index, key) ==
    IF ~IndexHas(index, key)
    THEN [k \in DOMAIN staged \ {key} |-> staged[k]]
    ELSE [k \in DOMAIN staged \cup {key} |->
             IF k = key THEN LogRecord(LogRecordDeleted, 0, key, "") ELSE staged[k]]

\* WriteBatch.Delete(key)
BatchDelete(key) ==
    /\ status = "open"
    /\ IF KeyIsEmpty(key)
       THEN Rejected("BatchDelete", key)
       ELSE /\ pending' = StageDelete(pending, db.index, key)
            /\ ret' = Ret("BatchDelete", key, "", "ok")
            /\ Appends(<<>>)
            /\ snap' = NoSnap
            /\ lastBatch' = NoPending
            /\ UNCHANGED <<iter, fileLock, files, primary, mergeDir, status, db, thr, lastOp, crashes>>

\* lastOp after a Commit of `staged`.
Committed(staged) ==
    [k \in Keys |->
        IF k \in DOMAIN staged
        THEN [op |-> IF staged[k].Type = LogRecordNormal THEN "Put" ELSE "Delete",
              val |-> staged[k].Value]
        ELSE lastOp[k]]

\* Commit refuses a batch that has reached the limit.
ExceedsAtLimit(staged) == Cardinality(DOMAIN staged) >= MaxBatchNum

\* Commit's test: uint(len(wb.pendingWrites)) > wb.options.MaxBatchNum
ExceedsMaxBatchNum(staged) == Cardinality(DOMAIN staged) > MaxBatchNum

\* WriteBatch.Commit; order is the order in which the staged keys are visited.
Commit(order) ==
    /\ status = "open"
    /\ IF DOMAIN pending = {}
       THEN /\ ret' = Ret("Commit", "", "", "ok")
            /\ Appends(<<>>)
            /\ snap' = NoSnap
            /\ lastBatch' = NoPending
            /\ UNCHANGED <<iter, fileLock, files, primary, mergeDir, status, db, pending, thr, lastOp, crashes>>
       ELSE IF ExceedsMaxBatchNum(pending)
       THEN /\ ret' = Ret("Commit", "", "", "ErrExceedMaxBatchNum")
            /\ Appends(<<>>)
            /\ snap' = NoSnap
            /\ lastBatch' = NoPending
            /\ UNCHANGED <<iter, fileLock, files, primary, mergeDir, status, db, pending, thr, lastOp, crashes>>
       ELSE /\ TotalEntries(files) + Len(order) + 1 <= MaxRecords
            /\ LET Written(a) ==
                       IF a.err = "panic" THEN Dies("Commit", "", a.files, mergeDir)
                       ELSE /\ files' = a.files
                            /\ db' = ApplyBatch(SyncActive(a.db), pending, order, a.log, 1)
                            /\ pending' = NoPending
                            /\ ret' = Ret("Commit", "", "", "ok")
                            /\ lastOp' = Committed(pending)
                            /\ Appends(a.log)
                            /\ snap' = NoSnap
                            /\ lastBatch' = pending
                            /\ UNCHANGED <<iter, fileLock, primary, mergeDir, status, thr, crashes>>
               IN  Written(AppendAll([db EXCEPT !.seqNo = @ + 1], files,
                                     CommitRecords(pending, order, db.seqNo + 1), <<>>))

\* An appendLogRecord whose DataFile.Write returns an I/O error: the active
\* file has been sealed and the next one opened when the record did not fit,
\* nothing is written.
FailedAppend(d, fs, rec) ==
    LET Failed(ready) ==
            IF ready.err # "ok" THEN ready
            ELSE Outcome(ready.db, ready.files, NoPos, "ErrIO")
    IN  Failed(IF d.activeFile = NoFile THEN SetActiveFile(d, fs)
               ELSE IF d.activeFile.WriteOff + RecordSize(rec) > DataFileSize
               THEN SetActiveFile([d EXCEPT !.olderFiles = @ \cup {d.activeFile.FileId}], fs)
               ELSE Outcome(d, fs, NoPos, "ok"))

\* What DB.Delete returns when appendLogRecordWithLock returns an error:
\* `if err != nil { return nil }`.
DeleteReturns(err) == "ok"

\* DB.Delete of a key that is in the index when the append of the tombstone
\* returns an I/O error: Delete returns before it touches reclaimSize and the
\* index.
DeleteFails(key) ==
    /\ status = "open"
    /\ ~KeyIsEmpty(key)
    /\ ~KeyAbsent(db.index, key)
    /\ db.mu = "unlocked"
    /\ LET Failed(f) ==
               /\ f.err = "ErrIO"
               /\ files' = f.files
               /\ db' = f.db
               /\ ret' = Ret("Delete", key, "", DeleteReturns(f.err))
               /\ lastOp' = IF DeleteReturns(f.err) = "ok"
                            THEN [lastOp EXCEPT ![key] = [op |-> "Delete", val |-> ""]]
                            ELSE lastOp
       IN  Failed(FailedAppend(db, files,
                               LogRecord(LogRecordDeleted, nonTransactionSeqNo, key, "")))
    /\ Appends(<<>>)
    /\ snap' = NoSnap
    /\ lastBatch' = NoPending
    /\ UNCHANGED <<iter, fileLock, primary, mergeDir, status, pending, thr, crashes>>

\* The engine's fields when Commit returns the error of an append: the return
\* is before the index loop.
AfterFailure(d, staged, order, log) == d

\* WriteBatch.Commit when append number `n` of the batch (a staged record or
\* the commit marker) returns an I/O error: Commit returns it; the batch
\* stays staged.
CommitFails(order, n) ==
    /\ status = "open"
    /\ DOMAIN pending # {}
    /\ ~ExceedsMaxBatchNum(pending)
    /\ n \in 1..(Len(order) + 1)
    /\ TotalEntries(files) + n <= MaxRecords
    /\ db.seqNo < MaxRecords
    /\ LET Failed(a, f) ==
               /\ a.err = "ok"
               /\ f.err = "ErrIO"
               /\ files' = f.files
               /\ db' = AfterFailure(f.db, pending, order, a.log)
               /\ Appends(a.log)
           Written(a, rec) == Failed(a, FailedAppend(a.db, a.files, rec))
           Records(recs) ==
               Written(AppendAll([db EXCEPT !.seqNo = @ + 1], files,
                                 SubSeq(recs, 1, n - 1), <<>>), recs[n])
       IN  Records(CommitRecords(pending, order, db.seqNo + 1))
    /\ ret' = Ret("Commit", "", "", "ErrIO")
    /\ snap' = NoSnap
    /\ lastBatch' = NoPending
    /\ UNCHANGED <<iter, fileLock, primary, mergeDir, status, pending, thr, lastOp, crashes>>

\* The directory after a crash left only the first `cut` bytes of the last
\* record appended to the active file (cut = 0: none of it).
CutLast(d, fs, cut) ==
    [fs EXCEPT ![d.activeFile.FileId] =
        IF cut = 0 THEN SubSeq(@, 1, Len(@) - 1)
        ELSE [@ EXCEPT ![Len(@)].Cut = cut]]

\* The process is killed during Commit: the first `whole` staged records are
\* in the log, of the next record (a staged record or the commit marker) only
\* the first `cut` bytes.
CommitCrash(order, whole) ==
    /\ status = "open"
    /\ crashes < MaxCrashes
    /\ crashes' = crashes + 1
    /\ DOMAIN pending # {}
    /\ Cardinality(DOMAIN pending) <= MaxBatchNum
    /\ whole \in 1..Len(order)
    /\ TotalEntries(files) + whole + 1 <= MaxCrashRecords
    /\ LET Torn(a, last) ==
               /\ a.err = "ok"
               /\ \E cut \in 0..(RecordSize(last) - 1) :
                      files' = CutLast(a.db, a.files, cut)
           Records(recs) ==
               Torn(AppendAll([db EXCEPT !.seqNo = @ + 1], files, recs, <<>>),
                    recs[whole + 1])
       IN  Records(SubSeq(CommitRecords(pending, order, db.seqNo + 1), 1, whole + 1))
    /\ Stops
    /\ ret' = Ret("CommitCrash", "", "", "killed")
    /\ snap' = Snap("Crash", GetAll(db, files), EmptyDir, FALSE)
    /\ lastBatch' = pending
    /\ fileLock' = "free"
    /\ UNCHANGED <<iter, primary, mergeDir, thr>>

\* DB.Merge
Merge(enough, g) ==
    /\ status = "open"
    /\ db.activeFile = NoFile \/ db.mu = "unlocked"
    /\ LET Run(m) ==
               IF m.err = "panic"
               THEN /\ Stops
                    /\ files' = m.files
                    /\ mergeDir' = m.mergeDir
                    /\ ret' = Ret("Merge", "", "", "panic")
                    /\ snap' = Snap("Interrupted", GetAll(db, files), files, TRUE)
                    /\ lastBatch' = NoPending
                    /\ fileLock' = "free"
                    /\ UNCHANGED <<iter, primary, thr, crashes>>
               ELSE /\ files' = m.files
                    /\ mergeDir' = m.mergeDir
                    /\ db' = m.db
                    /\ ret' = Ret("Merge", "", "", m.err)
                    /\ Appends(<<>>)
                    /\ snap' = IF m.err = "ok" /\ db.activeFile # NoFile
                               THEN Snap("Merge", GetAll(db, files), files, TRUE)
                               ELSE NoSnap
                    /\ lastBatch' = NoPending
                    /\ UNCHANGED <<iter, fileLock, primary, status, pending, thr, lastOp, crashes>>
       IN  Run(MergeRun(db, files, mergeDir, enough, g))

\* Where the process may be killed inside Merge before the marker is written:
\* after the preparation, after the merge directory was emptied and recreated,
\* after the scan.
MergeStages == {"prepared", "cleared", "scanned"}

\* The process is killed during Merge at `stage`.
MergeCrash(stage, g) ==
    /\ status = "open"
    /\ crashes < MaxCrashes
    /\ crashes' = crashes + 1
    /\ db.activeFile # NoFile
    /\ db.mu = "unlocked"
    /\ ~(db.reclaimSize < DataFileMergeRatio * DirSize(files))
    /\ LET Scanned(p, scan) ==
               /\ files' = p.files
               /\ stage = "scanned" => scan.err = "ok"
               /\ mergeDir' = CASE stage = "prepared" -> mergeDir
                                [] stage = "cleared" -> MergeDir(TRUE, EmptyDir, <<>>, -1)
                                [] OTHER -> MergeDir(TRUE, scan.files, scan.hint, -1)
           Prepared(p) == Scanned(p, MergeScan(p, g))
       IN  Prepared(MergePrepare(db, files))
    /\ Stops
    /\ ret' = Ret("MergeCrash", "", "", "killed")
    /\ snap' = Snap("Interrupted", GetAll(db, files), files, stage # "prepared")
    /\ lastBatch' = NoPending
    /\ fileLock' = "free"
    /\ UNCHANGED <<iter, primary, thr>>

\* ------------------------------------------------------- iterator calls
\* A call on the iterator: nothing of the engine or the directory changes.
IterCall(op) ==
    /\ ret' = Ret(op, "", "", "ok")
    /\ Appends(<<>>)
    /\ snap' = NoSnap
    /\ lastBatch' = NoPending
    /\ UNCHANGED <<files, primary, mergeDir, status, db, pending, thr, lastOp, crashes,
                   fileLock>>

\* DB.NewIterator(opts)
NewIterator(reverse, prefix) ==
    /\ status = "open"
    /\ ~iter.open
    /\ iter' = [NoIter EXCEPT !.open = TRUE,
                              !.values = NewBTreeIterator(db.index, reverse).values,
                              !.currIndex = NewBTreeIterator(db.index, reverse).currIndex,
                              !.reverse = reverse,
                              !.prefix = prefix,
                              !.born = DOMAIN db.index]
    /\ IterCall("NewIterator")

\* Iterator.Rewind
IterRewind ==
    /\ iter.open
    /\ iter' = Moved([iter EXCEPT !.visited = <<>>], IterValues(iter, db.index),
                     SkipToNext(IterValues(iter, db.index), 0, iter.prefix))
    /\ IterCall("Rewind")

\* Iterator.Next, called while the iterator is Valid.
IterNext ==
    /\ iter.open
    /\ iter.rewound
    /\ Valid(IterValues(iter, db.index), iter.currIndex)
    /\ iter' = Moved(iter, IterValues(iter, db.index),
                     SkipToNext(IterValues(iter, db.index), iter.currIndex + 1, iter.prefix))
    /\ IterCall("Next")

\* Iterator.Seek(key)
IterSeek(key) ==
    /\ iter.open
    /\ iter' = Moved([iter EXCEPT !.visited = <<>>], IterValues(iter, db.index),
                     SkipToNext(IterValues(iter, db.index),
                                BtreeSeek(IterValues(iter, db.index), key, iter.reverse),
                                iter.prefix))
    /\ ret' = Ret("Seek", key, "", "ok")
    /\ Appends(<<>>)
    /\ snap' = NoSnap
    /\ lastBatch' = NoPending
    /\ UNCHANGED <<files, primary, mergeDir, status, db, pending, thr, lastOp, crashes,
                   fileLock>>

\* Iterator.Value, called while the iterator is Valid: db.mu.Lock(), the read
\* by position, and the deferred db.mu.RUnlock() of a mutex that is locked for
\* writing.  RUnlock ends the process ("sync: RUnlock of unlocked RWMutex")
\* unless other goroutines wait in RLock at that moment (waiting): then it
\* returns and db.mu stays locked for writing.
IterValue(waiting) ==
    /\ status = "open"
    /\ iter.open
    /\ iter.rewound
    /\ Valid(IterValues(iter, db.index), iter.currIndex)
    /\ db.mu = "unlocked"
    /\ LET item == IterValues(iter, db.index)[iter.currIndex + 1]
           Read(r) ==
               IF r.err = "panic" \/ ~waiting
               THEN /\ Stops
                    /\ iter' = NoIter
                    /\ fileLock' = "free"
                    /\ ret' = Ret("Value", item.key, "", IF r.err = "panic" THEN "panic" ELSE "fatal")
               ELSE /\ db' = [db EXCEPT !.mu = "locked"]
                    /\ ret' = Ret("Value", item.key, r.val, r.err)
                    /\ Appends(<<>>)
                    /\ UNCHANGED <<iter, fileLock, status, pending, lastOp>>
       IN  Read(GetValueByPosition(db, files, item.pos))
    /\ snap' = NoSnap
    /\ lastBatch' = NoPending
    /\ UNCHANGED <<files, primary, mergeDir, thr, crashes>>

\* Iterator.Close
IterClose ==
    /\ iter.open
    /\ iter' = NoIter
    /\ IterCall("IterClose")

\* ------------------------------------------------- calls of several threads
\* A call of DB.Put, DB.Delete or WriteBatch.Commit is a chain of steps; what
\* runs under db.mu (appendLogRecordWithLock) is one step.  thr[t].pc is the
\* step thread t takes next.
Calling(t, pc, key, val, seq, pos) ==
    [thr EXCEPT ![t] = [pc |-> pc, key |-> key, val |-> val, seq |-> seq,
                        pos |-> pos, err |-> "ok", ids |-> {}, more |-> <<>>]]

Returned(t, err) == [thr EXCEPT ![t].pc = "done", ![t].err = err]

\* One appendLogRecord of thread t, then on to step `pc`.
ThreadAppend(t, rec, pc, seq) ==
    /\ TotalEntries(files) < MaxRecords
    /\ LET Written(a) ==
               /\ a.err = "ok"
               /\ files' = a.files
               /\ db' = a.db
               /\ thr' = Calling(t, pc, rec.Key, rec.Value, seq, a.pos)
               /\ appended' = Append(appended, Appended(a, rec))
       IN  Written(AppendLogRecord([db EXCEPT !.seqNo = Max(@, seq)], files, rec))
    /\ UNCHANGED <<iter, fileLock, primary, mergeDir, status, pending, ret, lastOp, history, snap,
                   lastBatch, crashes>>

\* One step on the index and the counters alone.
ThreadIndex(t, d, err) ==
    /\ db' = d
    /\ thr' = Returned(t, err)
    /\ UNCHANGED <<iter, fileLock, files, primary, mergeDir, status, pending, ret, lastOp, appended,
                   history, snap, lastBatch, crashes>>

\* Put, first step: appendLogRecordWithLock.
PutAppend(t, key, value) ==
    /\ status = "open" /\ thr[t].pc = "idle"
    /\ db.mu = "unlocked"
    /\ ThreadAppend(t, LogRecord(LogRecordNormal, nonTransactionSeqNo, key, value),
                    "putIndex", db.seqNo)

\* Put, second step, outside the lock: db.index.Put and reclaimSize.
PutIndex(t) ==
    /\ thr[t].pc = "putIndex"
    /\ ThreadIndex(t, [db EXCEPT !.index = IndexPut(@, thr[t].key, thr[t].pos),
                                 !.reclaimSize = @ + OldSize(db.index, thr[t].key)], "ok")

\* Delete, first step, outside the lock: db.index.Get; no entry: return nil.
DeleteLookup(t, key) ==
    /\ status = "open" /\ thr[t].pc = "idle"
    /\ thr' = IF IndexHas(db.index, key) THEN Calling(t, "deleteAppend", key, "", 0, NoPos)
              ELSE Calling(t, "done", key, "", 0, NoPos)
    /\ UNCHANGED <<iter, fileLock, files, primary, mergeDir, status, db, pending, ret, lastOp, appended,
                   history, snap, lastBatch, crashes>>

\* Delete, second step: appendLogRecordWithLock of the tombstone.
DeleteAppend(t) ==
    /\ thr[t].pc = "deleteAppend"
    /\ db.mu = "unlocked"
    /\ ThreadAppend(t, LogRecord(LogRecordDeleted, nonTransactionSeqNo, thr[t].key, ""),
                    "deleteIndex", db.seqNo)

\* Delete, third step, outside the lock: reclaimSize, then db.index.Delete;
\* ErrIndexUpdateFailed when the entry is gone.
DeleteIndex(t) ==
    /\ thr[t].pc = "deleteIndex"
    /\ IF IndexHas(db.index, thr[t].key)
       THEN ThreadIndex(t, [db EXCEPT !.index = IndexDelete(@, thr[t].key),
                                      !.reclaimSize = @ + thr[t].pos.Size
                                                        + OldSize(db.index, thr[t].key)], "ok")
       ELSE ThreadIndex(t, [db EXCEPT !.reclaimSize = @ + thr[t].pos.Size],
                        "ErrIndexUpdateFailed")

\* Commit of a batch holding Put(key, value), first step: the sequence number
\* is taken and the staged record appended; Commit holds wb.mu, not db.mu.
CommitAppend(t, key, value) ==
    /\ status = "open" /\ thr[t].pc = "idle"
    /\ TotalEntries(files) + 1 < MaxRecords
    /\ ThreadAppend(t, LogRecord(LogRecordNormal, db.seqNo + 1, key, value),
                    "commitMarker", db.seqNo + 1)

\* Commit, a further staged record Put(key, value) of the batch is appended;
\* its position is kept for the index loop.
CommitAppendMore(t, key, value) ==
    /\ thr[t].pc = "commitMarker"
    /\ key \notin {thr[t].key} \cup {thr[t].more[i].key : i \in 1..Len(thr[t].more)}
    /\ Len(thr[t].more) + 1 < MaxBatchNum
    /\ TotalEntries(files) + 1 < MaxRecords
    /\ LET Written(a, rec) ==
               /\ a.err = "ok"
               /\ files' = a.files
               /\ db' = a.db
               /\ thr' = [thr EXCEPT ![t].more = Append(@, [key |-> key, pos |-> a.pos])]
               /\ appended' = Append(appended, Appended(a, rec))
           Record(rec) == Written(AppendLogRecord(db, files, rec), rec)
       IN  Record(LogRecord(LogRecordNormal, thr[t].seq, key, value))
    /\ UNCHANGED <<iter, fileLock, primary, mergeDir, status, pending, ret, lastOp, history, snap,
                   lastBatch, crashes>>

\* Commit goes on to its index loop without appending the commit marker.
CommitMarkerSkipped(t) ==
    /\ thr[t].pc = "commitMarker"
    /\ thr' = [thr EXCEPT ![t].pc = "commitIndex"]
    /\ UNCHANGED <<iter, fileLock, files, primary, mergeDir, status, db, pending, ret, lastOp,
                   appended, history, snap, lastBatch, crashes>>

\* Commit, second step: the commit marker is appended.
CommitMarker(t) ==
    /\ thr[t].pc = "commitMarker"
    /\ LET Written(a) ==
               /\ a.err = "ok"
               /\ files' = a.files
               /\ db' = SyncActive(a.db)
       IN  Written(AppendLogRecord(db, files,
                       LogRecord(LogRecordTxnFinished, thr[t].seq, txnFinKey, "")))
    /\ thr' = [thr EXCEPT ![t].pc = "commitIndex"]
    /\ UNCHANGED <<iter, fileLock, primary, mergeDir, status, pending, ret, lastOp, appended, history,
                   snap, lastBatch, crashes>>

RECURSIVE IndexLoop(_, _)
\* The index loop of Commit over the staged records `recs`.
IndexLoop(d, recs) ==
    IF recs = <<>> THEN d
    ELSE IndexLoop([d EXCEPT !.index = IndexPut(@, recs[1].key, recs[1].pos),
                             !.reclaimSize = @ + OldSize(d.index, recs[1].key)],
                   Tail(recs))

\* Commit, last step: db.index.Put of the staged keys and reclaimSize.
CommitIndex(t) ==
    /\ thr[t].pc = "commitIndex"
    /\ ThreadIndex(t, IndexLoop(db, <<[key |-> thr[t].key, pos |-> thr[t].pos]>>
                                        \o thr[t].more), "ok")

\* Merge of thread t, first step: what runs from the call to db.mu.Unlock.
\* No active file: nil.  Under db.mu: isMerging is tested, the ratio and the
\* disk space are checked, isMerging is set, the active file is sealed and the
\* next one opened; the older files and the new active file's id are kept for
\* the scan.  The return of ErrNoEnoughSpaceForMerge leaves db.mu locked.
MergeCheck(t, enough) ==
    /\ status = "open" /\ thr[t].pc = "idle"
    /\ IF db.activeFile = NoFile
       THEN /\ thr' = [thr EXCEPT ![t].pc = "merged"]
            /\ UNCHANGED <<db, files>>
       ELSE /\ db.mu = "unlocked"
            /\ LET Refused(err, mu) ==
                       /\ db' = [db EXCEPT !.mu = mu]
                       /\ files' = files
                       /\ thr' = [thr EXCEPT ![t].pc = "merged", ![t].err = err]
                   Prepared(p) ==
                       /\ db' = [p.db EXCEPT !.isMerging = TRUE]
                       /\ files' = p.files
                       /\ thr' = [thr EXCEPT ![t].pc = "mergeScan",
                                             ![t].seq = p.db.activeFile.FileId,
                                             ![t].ids = p.db.olderFiles]
               IN  IF db.isMerging THEN Refused("ErrMergeIsProgress", "unlocked")
                   ELSE IF db.reclaimSize < DataFileMergeRatio * DirSize(files)
                   THEN Refused("ErrMergeRatioUnreached", "unlocked")
                   ELSE IF ~enough THEN Refused("ErrNoEnoughSpaceForMerge", "locked")
                   ELSE Prepared(MergePrepare(db, files))
    /\ UNCHANGED <<iter, fileLock, primary, mergeDir, status, pending, ret, lastOp, appended,
                   history, snap, lastBatch, crashes>>

\* Merge of thread t, second step, outside db.mu: the merge directory is made
\* anew, the merge engine rewrites the live records of the kept files, the hint
\* file and the marker are written; the deferred function resets isMerging
\* when Merge returns.  A panic of the scan ends the process.
MergeFinish(t, g) ==
    /\ thr[t].pc = "mergeScan"
    /\ LET Scanned(scan) ==
               IF scan.err = "Panic"
               THEN /\ Stops
                    /\ mergeDir' = MergeDir(TRUE, scan.files, scan.hint, -1)
                    /\ thr' = NoThreads
                    /\ ret' = Ret("Merge", "", "", "panic")
                    /\ fileLock' = "free"
                    /\ UNCHANGED <<iter, files, primary, snap, lastBatch, crashes>>
               ELSE /\ mergeDir' = MergeDir(TRUE, scan.files, scan.hint,
                                            IF scan.err = "ok" THEN thr[t].seq ELSE -1)
                    /\ db' = [db EXCEPT !.isMerging = FALSE]
                    /\ thr' = [thr EXCEPT ![t].pc = "merged", ![t].err = scan.err]
                    /\ UNCHANGED <<iter, fileLock, files, primary, status, pending, ret, lastOp,
                                   appended, history, snap, lastBatch, crashes>>
       IN  Scanned(MergeScan([db |-> [db EXCEPT !.olderFiles = thr[t].ids],
                              files |-> files], g))

\* Thread t, back from its call, is ready for the next one.
Again(t) ==
    /\ thr[t].pc \in {"done", "merged"}
    /\ thr' = [thr EXCEPT ![t] = Idle]
    /\ UNCHANGED <<iter, fileLock, files, primary, mergeDir, status, db, pending, ret, lastOp,
                   appended, history, snap, lastBatch, crashes>>

\* Directories the concurrent calls start on: an engine is open on each.
ConcDirs ==
    { (0 :> <<>>),
      (0 :> <<LogRecord(LogRecordNormal, nonTransactionSeqNo, "a", "x")>>) }

\* The engine Open returns on the data files fs.
Opened(fs) ==
    LoadIndexFromDataFiles(LoadDataFiles(NewDB, fs), fs, 0, "EOF").db

ConcInit ==
    /\ files \in ConcDirs
    /\ primary = NoAux
    /\ mergeDir = NoMergeDir
    /\ status = "open"
    /\ db = Opened(files)
    /\ pending = NoPending
    /\ thr = NoThreads
    /\ ret = Ret("Open", "", "", "ok")
    /\ lastOp = NoOps
    /\ appended = <<>>
    /\ history = NoHistory
    /\ snap = NoSnap
    /\ lastBatch = NoPending
    /\ crashes = 0
    /\ fileLock = "db"
    /\ iter = NoIter

\* Directories Merge is tried on: those of InitDirs, and one whose lowest data
\* file is missing.
MergeDirs ==
    InitDirs \cup {(1 :> <<LogRecord(LogRecordNormal, nonTransactionSeqNo, "a", "x")>>)}

MergeInit ==
    /\ files \in MergeDirs
    /\ primary = NoAux
    /\ mergeDir = NoMergeDir
    /\ status = "closed"
    /\ db = NewDB
    /\ pending = NoPending
    /\ thr = NoThreads
    /\ ret = Ret("none", "", "", "ok")
    /\ lastOp = NoOps
    /\ appended = <<>>
    /\ history = NoHistory
    /\ snap = NoSnap
    /\ lastBatch = NoPending
    /\ crashes = 0
    /\ fileLock = "free"
    /\ iter = NoIter

\* ------------------------------------------------------------ behaviours
Next ==
    \/ \E g \in GarbageOutcomes : Open(g)
    \/ Close
    \/ \E k \in Keys, v \in Values : Put(k, v)
    \/ \E k \in Keys : Delete(k)
    \/ \E k \in Keys, g \in GarbageOutcomes : Get(k, g)
    \/ \E k \in Keys, v \in Values : BatchPut(k, v)
    \/ \E k \in Keys : BatchDelete(k)
    \/ \E o \in Orders(DOMAIN pending) : Commit(o)

\* One engine at a time on the directory, its calls one after another.
Spec == Init /\ [][Next]_vars

\* The engine and another process's engine on the same directory.
NextLock ==
    \/ \E g \in GarbageOutcomes : Open(g)
    \/ Close
    \/ \E k \in Keys, v \in Values : Put(k, v)
    \/ \E k \in Keys : Delete(k)
    \/ OtherOpen
    \/ OtherClose

LockSpec == Init /\ [][NextLock]_vars

\* The engine with an iterator over its index, and writes while it is used.
NextIter ==
    \/ \E g \in GarbageOutcomes : Open(g)
    \/ \E k \in IterKeys : TotalEntries(files) < MaxIterRecords /\ Put(k, "x")
    \/ \E k \in IterKeys : TotalEntries(files) < MaxIterRecords /\ Delete(k)
    \/ \E k \in IterKeys : BatchPut(k, "x")
    \/ \E o \in Orders(DOMAIN pending) :
           TotalEntries(files) + Len(o) < MaxIterRecords /\ Commit(o)
    \/ \E r \in BOOLEAN, p \in Prefixes : NewIterator(r, p)
    \/ IterRewind
    \/ IterNext
    \/ IterClose

IterSpec == Init /\ [][NextIter]_vars

\* Keys Seek is called with: those of the index and the empty key.
SeekKeys == IterKeys \cup {""}

\* An engine and an iterator that is positioned with Seek.
NextSeek ==
    \/ \E g \in GarbageOutcomes : Open(g)
    \/ \E k \in IterKeys : TotalEntries(files) < MaxIterRecords /\ Put(k, "x")
    \/ \E k \in IterKeys : TotalEntries(files) < MaxIterRecords /\ Delete(k)
    \/ \E r \in BOOLEAN, p \in Prefixes : NewIterator(r, p)
    \/ \E k \in SeekKeys : IterSeek(k)
    \/ IterNext
    \/ \E w \in BOOLEAN : IterValue(w)
    \/ IterClose

SeekSpec == Init /\ [][NextSeek]_vars

\* Keys a caller may pass, the empty key among them.
AnyKeys == {"", "a"}

\* The calls of one engine with keys that may be empty.
NextAnyKey ==
    \/ \E g \in GarbageOutcomes : Open(g)
    \/ \E k \in AnyKeys : Put(k, "x")
    \/ \E k \in AnyKeys : Delete(k)
    \/ \E k \in AnyKeys, g \in GarbageOutcomes : Get(k, g)
    \/ \E k \in AnyKeys : BatchPut(k, "x")
    \/ \E k \in AnyKeys : BatchDelete(k)
    \/ \E o \in Orders(DOMAIN pending) : Commit(o)

AnyKeySpec == Init /\ [][NextAnyKey]_vars

\* One engine and a batch that may hold more keys than MaxBatchNum.
NextBatch ==
    \/ \E g \in GarbageOutcomes : Open(g)
    \/ \E k \in Keys : Put(k, "x")
    \/ \E k \in IterKeys : BatchPut(k, "x")
    \/ \E k \in IterKeys : BatchDelete(k)
    \/ \E o \in Orders(DOMAIN pending) : Commit(o)

BatchSpec == Init /\ [][NextBatch]_vars

\* The same engine with a process that may be killed during Commit; what it
\* returns to Get is read off the state.
NextCrash ==
    \/ \E g \in GarbageOutcomes : Open(g)
    \/ \E k \in Keys, v \in Values : Put(k, v)
    \/ \E k \in Keys : Delete(k)
    \/ \E k \in Keys, v \in Values : BatchPut(k, v)
    \/ \E k \in Keys : BatchDelete(k)
    \/ \E o \in Orders(DOMAIN pending) : Commit(o)
    \/ \E o \in Orders(DOMAIN pending), w \in 1..MaxBatchNum : CommitCrash(o, w)
    \/ Exit

CrashSpec == Init /\ [][NextCrash]_vars

\* One engine written with write batches, closed and opened again, and a
\* process that may be killed during Commit.
NextSeq ==
    \/ \E g \in GarbageOutcomes : Open(g)
    \/ Close
    \/ \E k \in Keys : BatchPut(k, "x")
    \/ \E o \in Orders(DOMAIN pending) : Commit(o)
    \/ \E o \in Orders(DOMAIN pending), w \in 1..MaxBatchNum : CommitCrash(o, w)

SeqSpec == Init /\ [][NextSeq]_vars

\* One engine whose appends may fail with an I/O error.
NextFail ==
    \/ \E g \in GarbageOutcomes : Open(g)
    \/ \E k \in Keys : Put(k, "x")
    \/ \E k \in Keys : BatchPut(k, "y")
    \/ \E k \in Keys : BatchDelete(k)
    \/ \E o \in Orders(DOMAIN pending) : Commit(o)
    \/ \E o \in Orders(DOMAIN pending), n \in 1..(MaxBatchNum + 1) : CommitFails(o, n)
    \/ \E k \in Keys : DeleteFails(k)

FailSpec == Init /\ [][NextFail]_vars

\* One engine written with Put, Delete and write batches, synced and closed.
NextSync ==
    \/ \E g \in GarbageOutcomes : Open(g)
    \/ Close
    \/ Sync
    \/ \E k \in Keys : Put(k, "x")
    \/ \E k \in Keys : Delete(k)
    \/ \E k \in Keys : BatchPut(k, "x")
    \/ \E o \in Orders(DOMAIN pending) : Commit(o)

SyncSpec == Init /\ [][NextSync]_vars

\* Directories Open is given with a merge directory beside them: the primary's
\* data files, and a merge directory whose marker holds a boundary (-1: no
\* marker), with the rewritten records in data files below the boundary and
\* the hint records Merge writes for them (the primary's index entries).
RecoverInputs ==
    LET ax == LogRecord(LogRecordNormal, nonTransactionSeqNo, "a", "x")
        ay == LogRecord(LogRecordNormal, nonTransactionSeqNo, "a", "y")
        bx == LogRecord(LogRecordNormal, nonTransactionSeqNo, "b", "x")
        rs == RecordSize(ax)
    IN  { [files |-> (0 :> <<ax>>) @@ (1 :> <<>>),
           mergeDir |-> MergeDir(TRUE, EmptyDir, <<>>, 0)],
          [files |-> (0 :> <<ax, ay>>) @@ (1 :> <<bx>>),
           mergeDir |-> MergeDir(TRUE, (0 :> <<ay>>),
                                 <<HintRecord("a", LogRecordPos(0, rs, rs))>>, 1)],
          [files |-> (0 :> <<ax>>) @@ (1 :> <<ay>>) @@ (2 :> <<>>),
           mergeDir |-> MergeDir(TRUE, (0 :> <<ay>>),
                                 <<HintRecord("a", LogRecordPos(1, 0, rs))>>, 2)],
          [files |-> (0 :> <<ax, bx>>) @@ (1 :> <<ay>>) @@ (2 :> <<bx>>),
           mergeDir |-> MergeDir(TRUE, (0 :> <<ay>>),
                                 <<HintRecord("a", LogRecordPos(1, 0, rs))>>, 2)],
          [files |-> (0 :> <<ax, ay>>) @@ (1 :> <<bx>>),
           mergeDir |-> MergeDir(TRUE, (0 :> <<ay>>),
                                 <<HintRecord("a", LogRecordPos(0, rs, rs))>>, -1)] }

RecoverInit ==
    /\ \E in \in RecoverInputs : files = in.files /\ mergeDir = in.mergeDir
    /\ primary = NoAux
    /\ status = "closed"
    /\ db = NewDB
    /\ pending = NoPending
    /\ thr = NoThreads
    /\ ret = Ret("none", "", "", "ok")
    /\ lastOp = NoOps
    /\ appended = <<>>
    /\ history = NoHistory
    /\ snap = NoSnap
    /\ lastBatch = NoPending
    /\ crashes = 0
    /\ fileLock = "free"
    /\ iter = NoIter

\* Open on a directory that has a merge directory beside it, then reads and
\* writes.
NextRecover ==
    \/ \E g \in GarbageOutcomes : Open(g)
    \/ Close
    \/ \E k \in Keys, g \in GarbageOutcomes : Get(k, g)
    \/ \E k \in Keys : Put(k, "x")
    \/ \E j \in 1..MaxRecoverySteps : OpenKilled(j)

RecoverSpec == RecoverInit /\ [][NextRecover]_vars

\* The engine with Merge, and a process that may be killed during Merge.
NextMerge ==
    \/ \E g \in GarbageOutcomes : Open(g)
    \/ Close
    \/ \E k \in Keys, v \in Values : Put(k, v)
    \/ \E k \in Keys : Delete(k)
    \/ \E e \in BOOLEAN, g \in GarbageOutcomes : Merge(e, g)
    \/ \E s \in MergeStages, g \in GarbageOutcomes : MergeCrash(s, g)

MergeSpec == MergeInit /\ [][NextMerge]_vars

\* Threads calling Put, Delete and Commit on one open engine, one call each.
NextConc ==
    \E t \in Threads :
        \/ \E k \in Keys, v \in Values : PutAppend(t, k, v)
        \/ PutIndex(t)
        \/ \E k \in Keys : DeleteLookup(t, k)
        \/ DeleteAppend(t)
        \/ DeleteIndex(t)
        \/ \E k \in Keys, v \in Values : CommitAppend(t, k, v)
        \/ \E k \in Keys, v \in Values : CommitAppendMore(t, k, v)
        \/ CommitMarker(t)
        \/ CommitIndex(t)

ConcSpec == ConcInit /\ [][NextConc]_vars

\* Threads calling Merge, Put and Delete on one open engine, call after call.
NextMergeConc ==
    \E t \in Threads :
        \/ \E e \in BOOLEAN : MergeCheck(t, e)
        \/ \E g \in GarbageOutcomes : MergeFinish(t, g)
        \/ \E k \in Keys : PutAppend(t, k, "x")
        \/ PutIndex(t)
        \/ \E k \in Keys : DeleteLookup(t, k)
        \/ DeleteAppend(t)
        \/ DeleteIndex(t)
        \/ Again(t)

MergeConcSpec == ConcInit /\ [][NextMergeConc]_vars

\* Directories the writes beside a Merge start on: an engine is open on each.
MergeWriteDirs ==
    { (0 :> <<>>),
      (0 :> <<LogRecord(LogRecordNormal, nonTransactionSeqNo, "a", "x")>>),
      (0 :> <<>>) @@ (1 :> <<LogRecord(LogRecordNormal, nonTransactionSeqNo, "a", "x")>>) }

MergeWriteInit ==
    /\ files \in MergeWriteDirs
    /\ primary = NoAux
    /\ mergeDir = NoMergeDir
    /\ status = "open"
    /\ db = Opened(files)
    /\ pending = NoPending
    /\ thr = NoThreads
    /\ ret = Ret("Open", "", "", "ok")
    /\ lastOp = NoOps
    /\ appended = <<>>
    /\ history = NoHistory
    /\ snap = NoSnap
    /\ lastBatch = NoPending
    /\ crashes = 0
    /\ fileLock = "db"
    /\ iter = NoIter

\* A Merge has left its preparation: db.mu is released and the scan runs or
\* has ended.
MergePrepared == \E m \in Threads : thr[m].pc = "mergeScan" \/ (thr[m].pc = "merged" /\ thr[m].ids # {})

\* One thread calls Merge; the other calls Put or Delete once the Merge has
\* released db.mu after its preparation.
NextMergeWrite ==
    \E t \in Threads :
        \/ ~MergePrepared /\ MergeCheck(t, TRUE)
        \/ \E g \in GarbageOutcomes : MergeFinish(t, g)
        \/ \E k \in Keys, v \in Values : MergePrepared /\ PutAppend(t, k, v)
        \/ PutIndex(t)
        \/ \E k \in Keys : MergePrepared /\ DeleteLookup(t, k)
        \/ DeleteAppend(t)
        \/ DeleteIndex(t)

MergeWriteSpec == MergeWriteInit /\ [][NextMergeWrite]_vars

\* ----------------------------------------------------------------- claims
\* No record of `key` is in any data file.
NeverWritten(key) ==
    \A f \in DOMAIN files : \A i \in 1..Len(files[f]) : files[f][i].Key # key

\* C1: on one open engine, after any sequence of successful Put and Delete
\* calls, Get(k) returns the value of the last Put(k) when the last operation
\* on k was a Put, and KeyNotFound when it was a Delete or k was never Put.
C1_GetReflectsLastWrite ==
    (status = "open" /\ ret.op = "Get") =>
        /\ lastOp[ret.key].op = "Put" =>
               (ret.err = "ok" /\ ret.val = lastOp[ret.key].val)
        /\ lastOp[ret.key].op = "Delete" => ret.err = "ErrKeyNotFound"
        /\ (lastOp[ret.key].op = "none" /\ NeverWritten(ret.key)) =>
               ret.err = "ErrKeyNotFound"

\* C2: after successful Put, Delete and Commit calls, then Close and Open on
\* the same directory, Get returns for every key what it returned just before
\* Close.
C2_ReopenPreservesGet ==
    (status = "open" /\ ret.op = "Open" /\ snap.at = "Close") =>
        GetAll(db, files) = snap.get

\* C3: when the process is killed after a batch's first data record and before
\* its commit marker is complete, then after the reopen every key of the batch
\* has the Get result it had before the Commit.
C3_BatchAtomicUnderCrash ==
    (status = "open" /\ ret.op = "Open" /\ snap.at = "Crash") =>
        \A k \in DOMAIN lastBatch : GetValue(db, files, k) = snap.get[k]

\* A key of the last committed batch reads what the batch staged for it.
ReadsStaged(k) ==
    IF lastBatch[k].Type = LogRecordNormal
    THEN GetValue(db, files, k) = GetResult(lastBatch[k].Value, "ok")
    ELSE GetValue(db, files, k).err = "ErrKeyNotFound"

\* The index entry of a key the last committed batch Put is the position of
\* the key's own data record.
IndexedAtOwnRecord(k) ==
    lastBatch[k].Type = LogRecordNormal =>
        /\ IndexHas(db.index, k)
        /\ db.index[k].Fid \in DOMAIN files
        /\ ReadLogRecord(files[db.index[k].Fid], db.index[k].Offset).st = "ok"
        /\ ReadLogRecord(files[db.index[k].Fid], db.index[k].Offset).rec.Key = k

\* C4: after a successful Commit every key staged with Put reads back its
\* staged value and every key staged with Delete reads KeyNotFound, on the same
\* engine and again after Close and Open, where replay indexes each key at the
\* position of its own data record.
C4_CommittedBatchReadsBack ==
    (status = "open" /\ lastBatch # NoPending /\ ret.op \in {"Commit", "Open"}) =>
        \A k \in DOMAIN lastBatch :
            /\ ReadsStaged(k)
            /\ ret.op = "Open" => IndexedAtOwnRecord(k)

\* C5: after a Merge that returned success, then Close and Open, Get returns
\* for every key what it returned before the merge: the same bytes for a key
\* that existed, KeyNotFound for a key that was deleted.
C5_MergePreservesMapping ==
    (status = "open" /\ ret.op = "Open" /\ snap.at = "MergeClose") =>
        GetAll(db, files) = snap.get

\* The state after the Open that follows a Merge interrupted before its marker.
AfterInterruptedMerge == status = "open" /\ ret.op = "Open" /\ snap.at = "Interrupted"

C7_ReturnedPositionIsRecordStart ==
    \A i \in 1..Len(appended) :
        /\ appended[i].pos.Fid = appended[i].fid
        /\ appended[i].pos.Offset = appended[i].before
        /\ appended[i].pos.Size = RecordSize(appended[i].rec)
        /\ ReadLogRecord(files[appended[i].pos.Fid], appended[i].pos.Offset).st = "ok"
        /\ ReadLogRecord(files[appended[i].pos.Fid], appended[i].pos.Offset).rec
               = appended[i].rec

\* (fileId, offset) of p before that of q, lexicographically.
Before(p, q) == p.Fid < q.Fid \/ (p.Fid = q.Fid /\ p.Offset < q.Offset)

\* C8: the (fileId, offset) pairs successive appends return are strictly
\* increasing, and no append writes to a file with a smaller id than a file an
\* earlier append wrote to.
C8_AppendsIncrease ==
    \A i \in 1..Len(appended) :
        /\ Before(IF i = 1 THEN history.last ELSE appended[i - 1].pos, appended[i].pos)
        /\ appended[i].fid >= history.top
        /\ \A j \in 1..(i - 1) : appended[i].fid >= appended[j].fid

\* The appends of data records of `key`, in log order.
AppendsOf(key) ==
    SelectSeq(appended, LAMBDA e : e.rec.Key = key /\ e.rec.Type # LogRecordTxnFinished)

\* The index entry of `key` is that of the last record of the key in the log.
IndexFollowsLog(key) ==
    AppendsOf(key) # <<>> =>
        IF AppendsOf(key)[Len(AppendsOf(key))].rec.Type = LogRecordDeleted
        THEN ~IndexHas(db.index, key)
        ELSE /\ IndexHas(db.index, key)
             /\ db.index[key] = AppendsOf(key)[Len(AppendsOf(key))].pos

\* C9: once the concurrent Put, Delete and Commit calls have all returned, the
\* index entry of every key is the one of the record that is last for the key
\* in the log, or absent when that record is a tombstone.
C9_IndexFollowsLog ==
    (\A t \in Threads : thr[t].pc = "done") => \A k \in Keys : IndexFollowsLog(k)

\* C10: Get returns DataFileNotFound only when the fileId of the key's index
\* position is neither the active file's id nor the id of a sealed file.
C10_GetDispatchesByFileId ==
    (status = "open" /\ ret.op = "Get" /\ ret.err = "ErrDataFileNotFound") =>
        /\ IndexHas(db.index, ret.key)
        /\ db.index[ret.key].Fid \notin ({db.activeFile.FileId} \cup db.olderFiles)

\* C11: Delete of a key that has no index entry returns success, appends no
\* record and leaves the data files, the index and reclaimSize as they were;
\* so does a second Delete of a key after a successful Delete of it.
C11_DeleteIdempotent ==
    [][(status = "open" /\ ret'.op = "Delete" /\ ~IndexHas(db.index, ret'.key)) =>
           /\ ret'.err = "ok"
           /\ files' = files
           /\ db' = db
           /\ appended' = <<>>]_vars

\* A Delete of a key that an earlier Delete had removed has returned: the
\* key's tombstone is in the log and this call appended nothing.
C11_Witness ==
    /\ status = "open"
    /\ ret.op = "Delete"
    /\ ret.err = "ok"
    /\ appended = <<>>
    /\ ~IndexHas(db.index, ret.key)
    /\ \E f \in DOMAIN files : \E i \in 1..Len(files[f]) :
           files[f][i].Key = ret.key /\ files[f][i].Type = LogRecordDeleted

\* C12: an engine is open on the directory only while it holds the lock, so
\* never while another engine does; Open on a directory whose lock another
\* engine holds fails with ErrDatabaseIsUsing; every Close, also of an engine
\* that never wrote, leaves the lock free, and Open on a free lock is not
\* refused.
C12_OneEnginePerDirectory ==
    /\ [](status = "open" => fileLock = "db")
    /\ [][/\ (ret'.op = "Open" /\ fileLock = "other") =>
                (ret'.err = "ErrDatabaseIsUsing" /\ status' = "closed" /\ fileLock' = "other")
          /\ (ret'.op = "Open" /\ fileLock = "free") =>
                (ret'.err = "ok" /\ status' = "open")
          /\ ret'.op \in {"Close", "OtherClose"} => fileLock' = "free"]_vars

\* The engine is open after an Open that was refused while another engine held
\* the lock: that engine has closed since.
C12_Witness ==
    /\ status = "open"
    /\ ret.op = "Open"
    /\ snap.at = "Refused"
    /\ fileLock = "db"

\* The bytes of `key` start with the bytes of `prefix`.
StartsWith(key, prefix) ==
    /\ Len(KeyBytes(prefix)) <= Len(KeyBytes(key))
    /\ \A i \in 1..Len(KeyBytes(prefix)) : KeyBytes(key)[i] = KeyBytes(prefix)[i]

\* Key a is before key b in lexicographic byte order.
LexBefore(a, b) ==
    \/ \E n \in 1..Len(KeyBytes(a)) :
           /\ n <= Len(KeyBytes(b))
           /\ \A i \in 1..(n - 1) : KeyBytes(a)[i] = KeyBytes(b)[i]
           /\ KeyBytes(a)[n] < KeyBytes(b)[n]
    \/ /\ Len(KeyBytes(a)) < Len(KeyBytes(b))
       /\ \A i \in 1..Len(KeyBytes(a)) : KeyBytes(a)[i] = KeyBytes(b)[i]

\* The keys of the index the iterator was built on that start with its prefix.
Matching == {k \in iter.born : StartsWith(k, iter.prefix)}

\* C13: from Rewind, the keys repeated Next visits are strictly ascending in
\* lexicographic byte order on a forward iterator and strictly descending on a
\* reverse one; they are index keys that start with the prefix, and when the
\* iterator is exhausted they are all of them.
C13_IteratorOrderAndPrefix ==
    (iter.open /\ iter.rewound) =>
        /\ \A i \in 1..(Len(iter.visited) - 1) :
               IF iter.reverse
               THEN LexBefore(iter.visited[i + 1], iter.visited[i])
               ELSE LexBefore(iter.visited[i], iter.visited[i + 1])
        /\ \A i \in 1..Len(iter.visited) : iter.visited[i] \in Matching
        /\ ~Valid(IterValues(iter, db.index), iter.currIndex) =>
               {iter.visited[i] : i \in 1..Len(iter.visited)} = Matching

\* A reverse iterator with a prefix is exhausted: it has visited two keys and
\* skipped a key that does not start with the prefix.
C13_Witness ==
    /\ iter.open
    /\ iter.rewound
    /\ iter.reverse
    /\ iter.prefix # ""
    /\ ~Valid(IterValues(iter, db.index), iter.currIndex)
    /\ Len(iter.visited) = 2
    /\ iter.born # Matching

RECURSIVE WalkFrom(_, _, _)
\* The keys visited from currIndex i by repeated Next.
WalkFrom(values, i, prefix) ==
    IF ~Valid(values, i) THEN <<>>
    ELSE <<values[i + 1].key>> \o WalkFrom(values, SkipToNext(values, i + 1, prefix), prefix)

\* The keys the iterator visits from Rewind by repeated Next.
Walk(it, index) ==
    WalkFrom(IterValues(it, index), SkipToNext(IterValues(it, index), 0, it.prefix),
             it.prefix)

\* C14: a Put, Delete or Commit made while an iterator exists changes neither
\* the keys the iterator visits from Rewind nor their order: they are those
\* of the index at the iterator's construction.
C14_IteratorSnapshot ==
    [][(iter.open /\ ret'.op \in {"Put", "Delete", "Commit"}) =>
           /\ iter'.open
           /\ Walk(iter', db'.index) = Walk(iter, db.index)
           /\ {Walk(iter', db'.index)[i] : i \in 1..Len(Walk(iter', db'.index))} = Matching]_vars

\* A write has changed the keys of the index since the iterator was built, and
\* the iterator has been walked to its end.
C14_Witness ==
    /\ iter.open
    /\ iter.rewound
    /\ DOMAIN db.index # iter.born
    /\ iter.visited # <<>>
    /\ ~Valid(IterValues(iter, db.index), iter.currIndex)

\* C15: Put, Get, Delete and the batch's Put and Delete called with a key of
\* length zero return ErrKeyIsEmpty; no record is appended, and the data
\* files, the index, reclaimSize and the staged batch are as before.
C15_EmptyKeyRejected ==
    [][(ret'.op \in {"Put", "Get", "Delete", "BatchPut", "BatchDelete"} /\ ret'.key = "") =>
           /\ ret'.err = "ErrKeyIsEmpty"
           /\ files' = files
           /\ db' = db
           /\ pending' = pending
           /\ appended' = <<>>]_vars

\* A call with the empty key was rejected on an engine that holds a key and a
\* staged batch.
C15_Witness ==
    /\ status = "open"
    /\ ret.key = ""
    /\ ret.err = "ErrKeyIsEmpty"
    /\ ret.op \in {"Put", "Get", "Delete", "BatchPut", "BatchDelete"}
    /\ DOMAIN db.index # {}
    /\ DOMAIN pending # {}

\* C16: Commit of a batch of more than MaxBatchNum staged keys returns
\* ErrExceedMaxBatchNum, Commit of an empty batch returns success, and
\* neither appends a record, takes a sequence number or touches the index; a
\* batch within the limit is not refused.
C16_CommitLimits ==
    [][ret'.op = "Commit" =>
           /\ DOMAIN pending = {} => ret'.err = "ok"
           /\ Cardinality(DOMAIN pending) > MaxBatchNum => ret'.err = "ErrExceedMaxBatchNum"
           /\ Cardinality(DOMAIN pending) <= MaxBatchNum => ret'.err # "ErrExceedMaxBatchNum"
           /\ (DOMAIN pending = {} \/ Cardinality(DOMAIN pending) > MaxBatchNum) =>
                  /\ files' = files
                  /\ db' = db
                  /\ appended' = <<>>]_vars

\* A Commit of a batch over the limit was refused on an engine that holds a
\* key: the batch is still staged.
C16_Witness ==
    /\ status = "open"
    /\ ret.op = "Commit"
    /\ ret.err = "ErrExceedMaxBatchNum"
    /\ Cardinality(DOMAIN pending) > MaxBatchNum
    /\ DOMAIN db.index # {}

\* A thread is past the precondition checks of Merge and has not returned.
MergeRunning(t) == thr[t].pc = "mergeScan"

\* At most one Merge is past its checks, and isMerging is set exactly then.
OneMergeRunning ==
    /\ Cardinality({t \in Threads : MergeRunning(t)}) <= 1
    /\ status = "open" => (db.isMerging <=> \E t \in Threads : MergeRunning(t))

\* A Merge called while another one runs is refused and seals no file.
RefusedWhileRunning ==
    [][\A t \in Threads :
          (/\ thr[t].pc = "idle"
           /\ thr'[t].pc \in {"merged", "mergeScan"}
           /\ \E u \in Threads \ {t} : MergeRunning(u))
          => /\ thr'[t].pc = "merged"
             /\ thr'[t].err = "ErrMergeIsProgress"
             /\ db'.activeFile = db.activeFile
             /\ db'.olderFiles = db.olderFiles
             /\ files' = files]_vars

\* When no Merge runs, a Merge call can take db.mu and finds isMerging false.
MergeAdmitted ==
    (status = "open" /\ \A t \in Threads : ~MergeRunning(t))
        => ~db.isMerging /\ db.mu = "unlocked"

\* C17: at most one Merge call is past its precondition checks; a Merge called
\* while another one runs returns ErrMergeIsProgress without sealing the active
\* file; once every Merge has returned, with success or with an error,
\* isMerging is false and a later Merge call is admitted.
C17_MergeMutualExclusion ==
    []OneMergeRunning /\ RefusedWhileRunning /\ []MergeAdmitted

\* C18: when Close returns success, every byte appended to the active file
\* has been synced before the file was closed, and the directory lock is
\* released.
C18_CloseIsDurable ==
    (status = "closed" /\ ret.op = "Close" /\ ret.err = "ok") =>
        ~snap.dirty /\ fileLock = "free"

\* C19: in every state of an open engine that has an active file, the active
\* file's id is greater than the id of every sealed file, so no sealed file
\* has the active file's id; after Open, after a rotation and after the
\* preparation of Merge.
C19_ActiveFileIsHighest ==
    (status = "open" /\ db.activeFile # NoFile) =>
        \A f \in db.olderFiles : f < db.activeFile.FileId

\* C20: after a Merge that completed, Close and Open with no write since the
\* merge began, reclaimSize (Stat().ReclaimableSize) is 0: the entries that
\* come from the hint file and the merged files count nothing.
C20_ReclaimableAfterMerge ==
    (status = "open" /\ ret.op = "Open" /\ snap.at = "MergeClose") =>
        db.reclaimSize = 0

\* The record a Put call appends.
PutRecord(r) == LogRecord(LogRecordNormal, nonTransactionSeqNo, r.key, r.val)

\* C21: a Put on an engine that has no active file succeeds and makes file 0
\* the active file; a Put whose record does not fit in the active file seals
\* that file under its id and writes to a new active file whose id is the
\* sealed one's plus 1, from offset 0.
C21_CreationAndRotation ==
    [][(status = "open" /\ ret'.op = "Put" /\ ~KeyIsEmpty(ret'.key)) =>
           /\ db.activeFile = NoFile =>
                  /\ ret'.err = "ok"
                  /\ db'.activeFile.FileId = 0
           /\ (/\ db.activeFile # NoFile
               /\ db.activeFile.WriteOff + RecordSize(PutRecord(ret')) > DataFileSize) =>
                  /\ ret'.err = "ok"
                  /\ db'.olderFiles = db.olderFiles \cup {db.activeFile.FileId}
                  /\ db'.activeFile.FileId = db.activeFile.FileId + 1
                  /\ db'.activeFile.WriteOff = RecordSize(PutRecord(ret'))]_vars

\* Thread t is inside Commit: its first record is appended, its index updates
\* are not applied yet.
InCommit(t) == thr[t].pc \in {"commitMarker", "commitIndex"}

\* C22: from the append of a batch's first record until its index updates are
\* applied, no step of another thread appends to the log, replaces the active
\* file or changes the index.
C22_CommitExcludesWriters ==
    [][\A t \in Threads :
          (InCommit(t) /\ thr'[t] = thr[t]) =>
              /\ files' = files
              /\ db'.activeFile = db.activeFile
              /\ db'.index = db.index]_vars

\* Where the log holds a commit marker of sequence number seq.
Markers(fs, seq) ==
    {<<f, i>> \in UNION {{f} \X (1..Len(fs[f])) : f \in DOMAIN fs} :
        fs[f][i].Type = LogRecordTxnFinished /\ fs[f][i].Seq = seq}

SeqNos(fs) ==
    {fs[f][i].Seq : <<f, i>> \in {<<f, i>> \in UNION {{f} \X (1..Len(fs[f])) : f \in DOMAIN fs} :
                                     fs[f][i].Cut = 0}}

\* C24: a successful Commit of a non-empty batch writes all its records with
\* one sequence number, greater than 0 and greater than every sequence number
\* already in the log; after Open the engine's seqNo is the largest sequence
\* number in the data files.
C24_SeqNoIncreases ==
    [][/\ (ret'.op = "Commit" /\ ret'.err = "ok" /\ appended' # <<>>) =>
              /\ \A i \in 1..Len(appended') :
                     appended'[i].rec.Seq = appended'[1].rec.Seq
              /\ appended'[1].rec.Seq > 0
              /\ \A n \in SeqNos(files) : appended'[1].rec.Seq > n
       /\ (ret'.op = "Open" /\ ret'.err = "ok") =>
              \A n \in SeqNos(files') : db'.seqNo >= n]_vars

\* Get(k) returns the value staged for k in the batch.
ShowsStaged(d, fs, k) ==
    /\ pending[k].Type = LogRecordNormal
    /\ GetValue(d, fs, k) = GetResult(pending[k].Value, "ok")

\* C25: when an append of Commit fails, Commit returns the error, the index
\* is as before the call, and Get of a key of the batch does not return the
\* staged value unless it did before the call.
C25_FailedCommitInvisible ==
    [][(ret'.op = "Commit" /\ ret'.err = "ErrIO") =>
           /\ db'.index = db.index
           /\ \A k \in DOMAIN pending :
                  ShowsStaged(db', files', k) => ShowsStaged(db, files, k)]_vars

\* The staged records other than the one of key k are as before the call.
OthersStaged(k) ==
    /\ DOMAIN pending' \ {k} = DOMAIN pending \ {k}
    /\ \A j \in DOMAIN pending \ {k} : pending'[j] = pending[j]

\* C26: the batch holds one staged record per key, the one of the last call
\* for the key: a batch Put stages the value, a batch Delete of a key that is
\* in the index stages a tombstone, a batch Delete of a key that is not in the
\* index stages nothing and drops what was staged for the key; Commit appends
\* one record for each staged key, and none for any other key.
C26_BatchStaging ==
    [][/\ (ret'.op = "BatchPut" /\ ret'.err = "ok") =>
              /\ ret'.key \in DOMAIN pending'
              /\ pending'[ret'.key].Type = LogRecordNormal
              /\ pending'[ret'.key].Value = ret'.val
              /\ OthersStaged(ret'.key)
       /\ (ret'.op = "BatchDelete" /\ ret'.err = "ok") =>
              /\ IF IndexHas(db.index, ret'.key)
                 THEN /\ ret'.key \in DOMAIN pending'
                      /\ pending'[ret'.key].Type = LogRecordDeleted
                 ELSE ret'.key \notin DOMAIN pending'
              /\ OthersStaged(ret'.key)
       /\ (ret'.op = "Commit" /\ ret'.err = "ok" /\ DOMAIN pending # {}) =>
              /\ Len(appended') = Cardinality(DOMAIN pending) + 1
              /\ \A k \in DOMAIN pending :
                     \E i \in 1..(Len(appended') - 1) :
                         /\ appended'[i].rec.Key = k
                         /\ appended'[i].rec.Type = pending[k].Type
                         /\ appended'[i].rec.Value = pending[k].Value
              /\ appended'[Len(appended')].rec.Type = LogRecordTxnFinished]_vars

\* A batch Delete of a key that is not in the index has left a batch that
\* holds other keys, and the engine holds a key.
C26_Witness ==
    /\ ret.op = "BatchDelete"
    /\ ret.err = "ok"
    /\ ~IndexHas(db.index, ret.key)
    /\ ret.key \notin DOMAIN pending
    /\ DOMAIN pending # {}
    /\ DOMAIN db.index # {}

RECURSIVE IndexedBytes(_, _)
\* The sum of the sizes of the index entries of `keys`.
IndexedBytes(index, keys) ==
    IF keys = {} THEN 0
    ELSE LET k == CHOOSE x \in keys : TRUE
         IN  index[k].Size + IndexedBytes(index, keys \ {k})

\* The bytes of the log that no index entry accounts for.
DeadBytes(d, fs) == DirSize(fs) - IndexedBytes(d.index, DOMAIN d.index)

\* C27: a Put adds to reclaimSize the size of the entry it replaces, a Delete
\* of a key that is in the index the size of its tombstone and the size of the
\* entry it removes; so on an engine written with Put and Delete only,
\* reclaimSize is the bytes of the log minus the sizes of the records the
\* index points to.
C27_ReclaimAccounting ==
    /\ [](status = "open" => db.reclaimSize = DeadBytes(db, files))
    /\ [][/\ (ret'.op = "Put" /\ ret'.err = "ok") =>
                 db'.reclaimSize = db.reclaimSize + OldSize(db.index, ret'.key)
          /\ (ret'.op = "Delete" /\ ret'.err = "ok" /\ IndexHas(db.index, ret'.key)) =>
                 db'.reclaimSize = db.reclaimSize
                                     + RecordSize(LogRecord(LogRecordDeleted,
                                                            nonTransactionSeqNo, ret'.key, ""))
                                     + db.index[ret'.key].Size]_vars

\* A key written twice was deleted: both records and the tombstone are
\* reclaimable, and the other key's record is not.
C27_Witness ==
    /\ status = "open"
    /\ ret.op = "Delete"
    /\ ret.err = "ok"
    /\ db.reclaimSize = DirSize(files) - 10
    /\ db.reclaimSize >= 29
    /\ DOMAIN db.index # {}

\* C28: a Delete of a key that is in the index and whose tombstone was not
\* written does not return success; the index entry and reclaimSize are as
\* before the call.
C28_FailedDeleteReported ==
    [][(ret'.op = "Delete" /\ IndexHas(db.index, ret'.key) /\ appended' = <<>>
        /\ status' = "open") =>
           /\ ret'.err # "ok"
           /\ db'.index = db.index
           /\ db'.reclaimSize = db.reclaimSize]_vars

\* Where the data files fs hold a whole record of key k.
RecordsOf(fs, k) ==
    {<<f, i>> \in UNION {{f} \X (1..Len(fs[f])) : f \in DOMAIN fs} :
        fs[f][i].Key = k /\ fs[f][i].Cut = 0}

\* C29: a Merge that runs its scan to the end leaves in the merge engine's
\* files exactly one record for every key of the index, a Normal record with
\* sequence number 0, and no record for any other key: nothing for superseded
\* records, tombstones and commit markers.
C29_MergeKeepsLiveRecords ==
    [][(ret'.op = "Merge" /\ ret'.err \in {"ok", "panic"} /\ db.activeFile # NoFile) =>
           /\ ret'.err = "ok"
           /\ \A k \in DOMAIN db.index :
                  /\ Cardinality(RecordsOf(mergeDir'.files, k)) = 1
                  /\ \A p \in RecordsOf(mergeDir'.files, k) :
                         /\ mergeDir'.files[p[1]][p[2]].Seq = nonTransactionSeqNo
                         /\ mergeDir'.files[p[1]][p[2]].Type = LogRecordNormal
           /\ TotalEntries(mergeDir'.files) = Cardinality(DOMAIN db.index)]_vars

\* The record of key k begins at position pos of the data files fs.
RecordAt(fs, k, pos) ==
    /\ pos.Fid \in DOMAIN fs
    /\ pos.Offset < FileSize(fs[pos.Fid])
    /\ ReadLogRecord(fs[pos.Fid], pos.Offset).st = "ok"
    /\ ReadLogRecord(fs[pos.Fid], pos.Offset).rec.Key = k
    /\ ReadLogRecord(fs[pos.Fid], pos.Offset).size = pos.Size

\* The keys whose index entry names the start of their record in the files.
LiveKeys(d, fs) == {k \in DOMAIN d.index : RecordAt(fs, k, d.index[k])}

\* C30: a Merge over files that hold the live record of a key writes a hint
\* record for that key, and every hint record it writes holds the position of
\* the key's rewritten record in the merge engine's files.
C30_HintPointsAtCopy ==
    [][(ret'.op = "Merge" /\ ret'.err \in {"ok", "panic"} /\ db.activeFile # NoFile) =>
           /\ \A k \in LiveKeys(db, files) :
                  \E i \in 1..Len(mergeDir'.hint) : mergeDir'.hint[i].Key = k
           /\ \A i \in 1..Len(mergeDir'.hint) :
                  RecordAt(mergeDir'.files, mergeDir'.hint[i].Key, mergeDir'.hint[i].Pos)]_vars

\* The ids of the data files the engine d has opened.
OpenedIds(d) ==
    d.olderFiles \cup (IF d.activeFile = NoFile THEN {} ELSE {d.activeFile.FileId})

\* C31: an Open that finds a merge directory whose marker holds boundary B
\* deletes the primary's data files below B, keeps those from B on as they
\* are, moves the merge directory's data files, hint file and marker into the
\* primary directory and removes the merge directory; the data files the
\* engine then opens are those of the directory after all that.
C31_MergeRecovery ==
    [][(ret'.op = "Open" /\ fileLock = "free" /\ mergeDir.exists /\ mergeDir.fin >= 0) =>
           /\ \A f \in DOMAIN files :
                  (f < mergeDir.fin /\ f \notin DOMAIN mergeDir.files) => f \notin DOMAIN files'
           /\ \A f \in DOMAIN files :
                  f >= mergeDir.fin => (f \in DOMAIN files' /\ files'[f] = files[f])
           /\ \A f \in DOMAIN mergeDir.files :
                  f \in DOMAIN files' /\ files'[f] = mergeDir.files[f]
           /\ primary'.hint = (IF mergeDir.hintGone THEN primary.hint ELSE mergeDir.hint)
           /\ primary'.fin = mergeDir.fin
           /\ mergeDir' = NoMergeDir
           /\ ret'.err = "ok" => OpenedIds(db') = DOMAIN files']_vars

\* An Open has recovered a merge whose boundary is above a data file of the
\* primary directory: the file is gone and the merged file is in its place.
C31_Witness ==
    /\ ret.op = "Open"
    /\ ret.err = "ok"
    /\ primary.fin = 2
    /\ DOMAIN files = {0, 2}
    /\ mergeDir = NoMergeDir
    /\ crashes = 0

\* The engine an Open builds on the data files fs when it loads the hint
\* records and then replays the data files from `boundary` on.
HintThenReplay(fs, hint, boundary) ==
    LoadIndexFromDataFiles([LoadDataFiles(NewDB, fs) EXCEPT
                               !.index = LoadIndexFromHintFile(@, hint)],
                           fs, boundary, "EOF")

\* C32: an Open that ends with a merge-finished marker of boundary B in the
\* primary directory has loaded the hint file and then replayed the data
\* files with id >= B and no other: its index, its reclaimable size and its
\* sequence number are those of the hint records followed by these files.
C32_ReplayFromBoundary ==
    [][(ret'.op = "Open" /\ fileLock = "free" /\ primary'.fin >= 0) =>
           /\ ret'.err = HintThenReplay(files', primary'.hint, primary'.fin).err
           /\ ret'.err = "ok" =>
                  /\ db'.index = HintThenReplay(files', primary'.hint, primary'.fin).db.index
                  /\ db'.reclaimSize =
                         HintThenReplay(files', primary'.hint, primary'.fin).db.reclaimSize
                  /\ db'.seqNo = HintThenReplay(files', primary'.hint, primary'.fin).db.seqNo]_vars

\* The engine and the data files after a Close and the next Open.
Reopened(fs, aux, md) ==
    LET Merged(m) ==
            LoadIndexFromDataFiles([LoadDataFiles(NewDB, m.files) EXCEPT
                                       !.index = LoadIndexFromHintFile(@, m.aux.hint)],
                                   m.files, NonMergeFileId(m.mergeDir, m.aux), "EOF")
    IN  Merged(LoadMergeFiles(fs, aux, md))

\* The index of engine d on files fs has for key k: an entry at a record of k
\* holding `value`, or no entry when value is "".
IndexReads(d, fs, k, value) ==
    IF value = "" THEN ~IndexHas(d.index, k)
    ELSE /\ IndexHas(d.index, k)
         /\ RecordAt(fs, k, d.index[k])
         /\ ReadLogRecord(fs[d.index[k].Fid], d.index[k].Offset).rec.Type = LogRecordNormal
         /\ ReadLogRecord(fs[d.index[k].Fid], d.index[k].Offset).rec.Value = value

\* C33: when a Merge has returned success and the Put or Delete another
\* thread made after the Merge's preparation has returned, the index a Close
\* and reopen builds has the Put's value for its key, and no entry for the
\* Delete's key.
C33_WritesSurviveMerge ==
    (/\ status = "open"
     /\ \A t \in Threads : thr[t].pc \in {"idle", "done", "merged"}
     /\ \E m \in Threads : thr[m].pc = "merged" /\ thr[m].err = "ok" /\ mergeDir.fin >= 0) =>
        \A t \in Threads :
            (thr[t].pc = "done" /\ thr[t].err = "ok") =>
                IndexReads(Reopened(files, primary, mergeDir).db,
                           Reopened(files, primary, mergeDir).files,
                           thr[t].key, thr[t].val)

\* C34: whenever a call of Merge has returned, with success or with any of
\* its errors, db.mu is not held: the next Put, Delete or Merge on the engine
\* can take it.
C34_MergeReleasesLock ==
    \A t \in Threads : thr[t].pc = "merged" => db.mu = "unlocked"

\* The iterator it stands on key k, or is invalid when k is "".
CursorOn(it, k) ==
    IF k = "" THEN ~Valid(it.values, it.currIndex)
    ELSE Valid(it.values, it.currIndex) /\ it.values[it.currIndex + 1].key = k

\* The key of the set ks that an iterator meets first: the least one going
\* forward, the greatest one going in reverse; "" when ks is empty.
FirstOf(ks, reverse) ==
    IF ks = {} THEN ""
    ELSE IF reverse THEN CHOOSE k \in ks : \A j \in ks \ {k} : LexBefore(j, k)
    ELSE CHOOSE k \in ks : \A j \in ks \ {k} : LexBefore(k, j)

\* C35: Seek(key) puts a forward iterator on the smallest key of its snapshot
\* (among those with its prefix) that is >= key, a reverse iterator on the
\* largest one that is <= key, and leaves it invalid when there is none; a
\* Next then puts it on the nearest key beyond the one it is on, in the
\* iterator's direction, or leaves it invalid when there is none.
C35_SeekLandsOnBound ==
    [][/\ ret'.op = "Seek" =>
              CursorOn(iter', FirstOf({k \in Matching :
                                          IF iter.reverse THEN ~LexBefore(ret'.key, k)
                                          ELSE ~LexBefore(k, ret'.key)}, iter.reverse))
       /\ (ret'.op = "Next" /\ iter.open /\ Valid(iter.values, iter.currIndex)) =>
              CursorOn(iter', FirstOf({k \in Matching :
                                          IF iter.reverse
                                          THEN LexBefore(k, iter.values[iter.currIndex + 1].key)
                                          ELSE LexBefore(iter.values[iter.currIndex + 1].key, k)},
                                      iter.reverse))]_vars

\* A reverse iterator over three keys was put by Seek on a key that is not the
\* greatest one, and a Next has moved it on to a further key.
C35_Witness ==
    /\ iter.open
    /\ iter.reverse
    /\ ret.op = "Next"
    /\ Cardinality(iter.born) = 3
    /\ Len(iter.visited) = 2
    /\ iter.visited[1] # "b"
    /\ Valid(iter.values, iter.currIndex)

\* C36: in every state of an open engine each index entry names the active
\* file or an older file of the engine, and its offset is the first byte of a
\* record of that file which has type Normal, the entry's key and the entry's
\* size.
C36_IndexValid ==
    status = "open" =>
        \A k \in DOMAIN db.index :
            /\ db.index[k].Fid \in OpenedIds(db)
            /\ RecordAt(files, k, db.index[k])
            /\ ReadLogRecord(files[db.index[k].Fid], db.index[k].Offset).rec.Type = LogRecordNormal

\* C37: while a Merge scans, every file it scans has an id below the boundary
\* it kept (the id of the active file its preparation opened), the active
\* file that takes the appends has an id from the boundary on, and so have no
\* data files of the merge engine.
C37_BoundarySeparates ==
    \A t \in Threads :
        thr[t].pc = "mergeScan" =>
            /\ \A f \in thr[t].ids : f < thr[t].seq
            /\ db.activeFile.FileId >= thr[t].seq
            /\ \A f \in DOMAIN mergeDir.files : f < thr[t].seq

\* C38: the Open that follows a recovery of a committed merge during which
\* the process was killed leaves the primary directory with the data files
\* the uninterrupted recovery would have left (the merged files and the files
\* from the boundary on), and the merge directory is gone.
C38_RecoveryRerun ==
    (ret.op = "Open" /\ ret.err = "ok" /\ snap.at = "Recovery") =>
        /\ files = snap.files
        /\ mergeDir = NoMergeDir

\* C39: a call of Iterator.Value returns with db.mu in the state it had
\* before the call, and the engine is still open: the process has not ended
\* in the call.
C39_ValueLockBalanced ==
    [][ret'.op = "Value" =>
           /\ ret'.err \notin {"fatal", "panic"}
           /\ status' = "open"
           /\ db'.mu = db.mu]_vars

\* Thread t has returned from Delete(k).
DeleteReturned(t, k) == thr[t].pc = "done" /\ thr[t].key = k /\ thr[t].val = ""

\* C40: when two threads have both returned from Delete of one key, both
\* calls returned success, the key has no index entry, and reclaimSize is the
\* number of bytes of the log that the index does not refer to.
C40_ConcurrentDeletes ==
    \A k \in Keys :
        (\A t \in Threads : DeleteReturned(t, k)) =>
            /\ \A t \in Threads : thr[t].err = "ok"
            /\ ~IndexHas(db.index, k)
            /\ db.reclaimSize = DeadBytes(db, files)

====
